---- MODULE Spec2Model ----
(***************************************************************************)
(* A model of chrono's DateTime<Tz> (src/datetime/mod.rs): a UTC           *)
(* NaiveDateTime together with an offset, generic over the time zone.      *)
(*                                                                         *)
(* Integers are kept below 2^31: an instant is the triple                  *)
(* (day number since 1970-01-01, second of day, nanosecond), never one     *)
(* count of seconds, and a TimeDelta is the same kind of triple.           *)
(***************************************************************************)
EXTENDS Integers, Sequences, FiniteSets, TLC

(***************************************************************************)
(* Option, and the outcome of a call that may panic.                       *)
(***************************************************************************)
None == [some |-> FALSE]
Some(v) == [some |-> TRUE, val |-> v]
IsSome(o) == o.some
IsNone(o) == ~o.some

Panic == [panic |-> TRUE]
Ok(v) == [panic |-> FALSE, val |-> v]

(***************************************************************************)
(* The naive calendar (crate::naive): the proleptic Gregorian calendar     *)
(* over the years MIN_YEAR..MAX_YEAR, with one more day on either side     *)
(* that only intermediate values may use.                                  *)
(***************************************************************************)
MIN_YEAR == -262143
MAX_YEAR == 262142
SECS_PER_DAY == 86400
NANOS_PER_SEC == 1000000000

IsLeapYear(y) == (y % 4 = 0) /\ ((y % 100 /= 0) \/ (y % 400 = 0))

DaysInMonth(y, m) ==
    IF m = 2 THEN (IF IsLeapYear(y) THEN 29 ELSE 28)
    ELSE IF m \in {4, 6, 9, 11} THEN 30 ELSE 31

DaysInYear(y) == IF IsLeapYear(y) THEN 366 ELSE 365

\* The day number of the civil date y-m-d (1970-01-01 is day 0).
DaysFromCivil(y, m, d) ==
    LET yy  == IF m <= 2 THEN y - 1 ELSE y
        era == yy \div 400
        yoe == yy - era * 400
        mp  == IF m > 2 THEN m - 3 ELSE m + 9
        doy == (153 * mp + 2) \div 5 + d - 1
        doe == yoe * 365 + yoe \div 4 - yoe \div 100 + doy
    IN  era * 146097 + doe - 719468

\* The civil date of a day number, from its 400-year era, its day of the
\* era (doe), its year of the era (yoe), its day of the year counted from
\* March 1 (doy) and its month counted from March (mp).
CivilOfMp(y0, doy, mp) ==
    [year  |-> y0 + (IF mp >= 10 THEN 1 ELSE 0),
     month |-> IF mp < 10 THEN mp + 3 ELSE mp - 9,
     day   |-> doy - (153 * mp + 2) \div 5 + 1]

CivilOfDoy(y0, doy) == CivilOfMp(y0, doy, (5 * doy + 2) \div 153)

CivilOfYoe(era, doe, yoe) ==
    CivilOfDoy(yoe + era * 400, doe - (365 * yoe + yoe \div 4 - yoe \div 100))

CivilOfDoe(era, doe) ==
    CivilOfYoe(era, doe,
               (doe - doe \div 1460 + doe \div 36524 - doe \div 146096) \div 365)

CivilFromDays(z) ==
    CivilOfDoe((z + 719468) \div 146097, (z + 719468) % 146097)

MinDay == DaysFromCivil(MIN_YEAR, 1, 1)
MaxDay == DaysFromCivil(MAX_YEAR, 12, 31)

\* NaiveDate::from_ymd_opt: the day number, or None for an invalid date or
\* a year outside MIN_YEAR..MAX_YEAR.
from_ymd_opt(y, m, d) ==
    IF /\ y >= MIN_YEAR /\ y <= MAX_YEAR
       /\ m >= 1 /\ m <= 12
       /\ d >= 1 /\ d <= DaysInMonth(y, m)
    THEN Some(DaysFromCivil(y, m, d))
    ELSE None

\* NaiveDate::from_yo_opt
DateYear(day) == CivilFromDays(day).year
DateMonth(day) == CivilFromDays(day).month
DateDay(day) == CivilFromDays(day).day

\* NaiveDate::succ_opt / pred_opt: the next / previous day; None only when
\* that day opens a year outside MIN_YEAR..MAX_YEAR, which over the years
\* MIN_YEAR-1..MAX_YEAR+1 is after a last day of MAX_YEAR or MAX_YEAR+1 and
\* before a first day of MIN_YEAR or MIN_YEAR-1.
succ_opt(day) ==
    IF day = MaxDay \/ day = MaxDay + DaysInYear(MAX_YEAR + 1)
    THEN None ELSE Some(day + 1)

pred_opt(day) ==
    IF day = MinDay \/ day = MinDay - DaysInYear(MIN_YEAR - 1)
    THEN None ELSE Some(day - 1)

\* NaiveDate::BEFORE_MIN / AFTER_MAX: the two buffer days.
BEFORE_MIN == MinDay - 1
AFTER_MAX == MaxDay + 1

(***************************************************************************)
(* NaiveDateTime: [day, secs, frac]; frac >= NANOS_PER_SEC encodes a leap  *)
(* second.                                                                 *)
(***************************************************************************)
NaiveDT(day, secs, frac) == [day |-> day, secs |-> secs, frac |-> frac]

NaiveMIN == NaiveDT(MinDay, 0, 0)
NaiveMAX == NaiveDT(MaxDay, SECS_PER_DAY - 1, NANOS_PER_SEC - 1)

\* The derived order of NaiveDateTime: date, then second of day, then frac.
NaiveLess(x, y) ==
    \/ x.day < y.day
    \/ x.day = y.day /\ x.secs < y.secs
    \/ x.day = y.day /\ x.secs = y.secs /\ x.frac < y.frac

NaiveLeq(x, y) == x = y \/ NaiveLess(x, y)

\* Ordering as "Less" | "Equal" | "Greater".
NaiveCmp(x, y) ==
    IF NaiveLess(x, y) THEN "Less"
    ELSE IF x = y THEN "Equal" ELSE "Greater"

NaiveInRange(x) == NaiveLeq(NaiveMIN, x) /\ NaiveLeq(x, NaiveMAX)

\* NaiveTime::overflowing_add_offset: the second of day shifted by the
\* offset, and the days carried (-1, 0 or 1); frac is untouched.
TimeAddOffset(secs, off) ==
    [secs |-> (secs + off) % SECS_PER_DAY, days |-> (secs + off) \div SECS_PER_DAY]

\* The date after the days carried by an offset, checked.
CarriedDate(day, days) ==
    IF days = -1 THEN pred_opt(day)
    ELSE IF days = 1 THEN succ_opt(day)
    ELSE Some(day)

WithTime(date, t, frac) ==
    IF IsSome(date) THEN Some(NaiveDT(date.val, t.secs, frac)) ELSE None

\* NaiveDateTime::checked_add_offset
AddOffsetTime(x, t) == WithTime(CarriedDate(x.day, t.days), t, x.frac)

checked_add_offset(x, off) == AddOffsetTime(x, TimeAddOffset(x.secs, off))

\* NaiveDateTime::checked_sub_offset
checked_sub_offset(x, off) == checked_add_offset(x, 0 - off)

\* NaiveDateTime::overflowing_add_offset: as checked_add_offset, but a date
\* before MIN / after MAX becomes the buffer day.
OrElse(o, v) == IF IsSome(o) THEN o.val ELSE v

OverflowingDate(day, days) ==
    IF days = -1 THEN OrElse(pred_opt(day), BEFORE_MIN)
    ELSE IF days = 1 THEN OrElse(succ_opt(day), AFTER_MAX)
    ELSE day

AddOffsetTimeOverflowing(x, t) == NaiveDT(OverflowingDate(x.day, t.days), t.secs, x.frac)

overflowing_add_offset(x, off) == AddOffsetTimeOverflowing(x, TimeAddOffset(x.secs, off))

(***************************************************************************)
(* Field changes of a NaiveDateTime (Datelike / Timelike for               *)
(* NaiveDateTime).  with_year checks the year range; the other date        *)
(* setters keep the year as it is, also on a buffer day.                   *)
(***************************************************************************)
\* The day number of y-m-d when m and d are valid in year y (no year check).
DateFromMd(y, m, d) ==
    IF m >= 1 /\ m <= 12 /\ d >= 1 /\ d <= DaysInMonth(y, m)
    THEN Some(DaysFromCivil(y, m, d))
    ELSE None

WithDate(x, date) ==
    IF IsSome(date) THEN Some(NaiveDT(date.val, x.secs, x.frac)) ELSE None

naive_with_year(x, year) ==
    WithDate(x, from_ymd_opt(year, DateMonth(x.day), DateDay(x.day)))

naive_with_month(x, month) ==
    WithDate(x, DateFromMd(DateYear(x.day), month, DateDay(x.day)))

naive_with_month0(x, month0) == naive_with_month(x, month0 + 1)

naive_with_day(x, day) ==
    WithDate(x, DateFromMd(DateYear(x.day), DateMonth(x.day), day))

naive_with_day0(x, day0) == naive_with_day(x, day0 + 1)

OrdinalInYear(y, ordinal) ==
    IF ordinal >= 1 /\ ordinal <= DaysInYear(y)
    THEN Some(DaysFromCivil(y, 1, 1) + ordinal - 1)
    ELSE None

naive_with_ordinal(x, ordinal) == WithDate(x, OrdinalInYear(DateYear(x.day), ordinal))

naive_with_ordinal0(x, ordinal0) == naive_with_ordinal(x, ordinal0 + 1)

naive_with_hour(x, hour) ==
    IF hour >= 24 THEN None
    ELSE Some(NaiveDT(x.day, hour * 3600 + (x.secs % 3600), x.frac))

naive_with_minute(x, min) ==
    IF min >= 60 THEN None
    ELSE Some(NaiveDT(x.day, (x.secs \div 3600) * 3600 + min * 60 + (x.secs % 60), x.frac))

naive_with_second(x, sec) ==
    IF sec >= 60 THEN None
    ELSE Some(NaiveDT(x.day, (x.secs \div 60) * 60 + sec, x.frac))

naive_with_nanosecond(x, nano) ==
    IF nano >= 2 * NANOS_PER_SEC THEN None
    ELSE Some(NaiveDT(x.day, x.secs, nano))

(***************************************************************************)
(* Calendar arithmetic of a NaiveDateTime.  Days and Months are unsigned.  *)
(***************************************************************************)
\* NaiveDate::checked_add_days / checked_sub_days (signed shift n).
DateShiftDays(day, n) ==
    IF day + n >= MinDay /\ day + n <= MaxDay THEN Some(day + n) ELSE None

naive_checked_add_days(x, days) == WithDate(x, DateShiftDays(x.day, days))
naive_checked_sub_days(x, days) == WithDate(x, DateShiftDays(x.day, 0 - days))

\* NaiveDate::diff_months: shift by months, the day clamped to the length
\* of the target month.
ClampedYmd(y, m, d) ==
    IF y >= MIN_YEAR /\ y <= MAX_YEAR
    THEN from_ymd_opt(y, m, IF d > DaysInMonth(y, m) THEN DaysInMonth(y, m) ELSE d)
    ELSE None

MonthsOfCivil(c) == c.year * 12 + c.month - 1

ShiftCivilMonths(c, months) ==
    ClampedYmd((MonthsOfCivil(c) + months) \div 12,
               ((MonthsOfCivil(c) + months) % 12) + 1, c.day)

diff_months(day, months) == ShiftCivilMonths(CivilFromDays(day), months)

naive_checked_add_months(x, months) ==
    IF months = 0 THEN Some(x) ELSE WithDate(x, diff_months(x.day, months))

naive_checked_sub_months(x, months) ==
    IF months = 0 THEN Some(x) ELSE WithDate(x, diff_months(x.day, 0 - months))

(***************************************************************************)
(* TimeDelta: [d, s, n] stands for d days + s seconds + n nanoseconds,     *)
(* with 0 <= s < SECS_PER_DAY and 0 <= n < NANOS_PER_SEC (d carries the    *)
(* sign), the floor form chrono keeps its seconds and nanoseconds in.      *)
(***************************************************************************)
TimeDelta(d, s, n) == [d |-> d, s |-> s, n |-> n]

TdZero == TimeDelta(0, 0, 0)

\* -rhs
TdNeg(td) ==
    LET \* whole seconds of -td before the nanosecond borrow, as (d, s)
        d0 == IF td.s = 0 THEN 0 - td.d ELSE 0 - td.d - 1
        s0 == IF td.s = 0 THEN 0 ELSE SECS_PER_DAY - td.s
    IN  IF td.n = 0 THEN TimeDelta(d0, s0, 0)
        ELSE IF s0 = 0 THEN TimeDelta(d0 - 1, SECS_PER_DAY - 1, NANOS_PER_SEC - td.n)
        ELSE TimeDelta(d0, s0 - 1, NANOS_PER_SEC - td.n)

\* TimeDelta::num_seconds, rounded toward zero, as [d, s] with 0 <= s < 86400.
TdNumSeconds(td) ==
    IF td.d < 0 /\ td.n > 0
    THEN (IF td.s = SECS_PER_DAY - 1 THEN [d |-> td.d + 1, s |-> 0]
          ELSE [d |-> td.d, s |-> td.s + 1])
    ELSE [d |-> td.d, s |-> td.s]

\* TimeDelta::subsec_nanos, with the sign of the whole.
TdSubsecNanos(td) ==
    IF td.d < 0 /\ td.n > 0 THEN td.n - NANOS_PER_SEC ELSE td.n

\* The carry of a nanosecond sum into the seconds.
FracCarry(frac) == IF frac < 0 THEN -1 ELSE IF frac >= NANOS_PER_SEC THEN 1 ELSE 0

\* secs seconds of day and frac nanoseconds (neither a leap second) plus
\* the whole seconds ts = [d, s]: the time of day and the days carried.
AddWhole(secs, frac, ts) ==
    [secs |-> (secs + ts.s + FracCarry(frac)) % SECS_PER_DAY,
     frac |-> frac - FracCarry(frac) * NANOS_PER_SEC,
     days |-> ts.d + ((secs + ts.s + FracCarry(frac)) \div SECS_PER_DAY)]

\* The addition to a leap second x: an addition that leaves the leap second
\* upward or downward drops it; one that stays inside only adds to frac.
AddToLeap(x, ts, fadd) ==
    IF ts.d > 0 \/ (ts.d = 0 /\ ts.s > 0)
       \/ (fadd > 0 /\ x.frac >= 2 * NANOS_PER_SEC - fadd)
    THEN AddWhole(x.secs, x.frac - NANOS_PER_SEC + fadd, ts)
    ELSE IF ts.d < 0
    THEN AddWhole(x.secs + 1, x.frac - NANOS_PER_SEC + fadd, ts)
    ELSE [secs |-> x.secs, frac |-> x.frac + fadd, days |-> 0]

\* NaiveTime::overflowing_add_signed: the time of day after adding rhs and
\* the whole days carried.  No leap second is assumed unless x is one.
time_overflowing_add_signed(x, rhs) ==
    IF x.frac >= NANOS_PER_SEC
    THEN AddToLeap(x, TdNumSeconds(rhs), TdSubsecNanos(rhs))
    ELSE AddWhole(x.secs, x.frac + TdSubsecNanos(rhs), TdNumSeconds(rhs))

\* NaiveDate::checked_add_signed of whole days, with the time of day t.
DateTimeOfCarry(day, t) ==
    IF day + t.days >= MinDay /\ day + t.days <= MaxDay
    THEN Some(NaiveDT(day + t.days, t.secs, t.frac))
    ELSE None

\* NaiveDateTime::checked_add_signed / checked_sub_signed
naive_checked_add_signed(x, rhs) ==
    DateTimeOfCarry(x.day, time_overflowing_add_signed(x, rhs))

naive_checked_sub_signed(x, rhs) == naive_checked_add_signed(x, TdNeg(rhs))

\* The leap second still to be counted between x and rhs: one when rhs is
\* a leap second that x lies after, minus one when x is a leap second that
\* rhs lies after.
LeapAdjust(x, rhs) ==
    (IF rhs.frac >= NANOS_PER_SEC /\ (x.day > rhs.day \/ (x.day = rhs.day /\ x.secs > rhs.secs))
     THEN 1 ELSE 0)
    - (IF x.frac >= NANOS_PER_SEC /\ (x.day < rhs.day \/ (x.day = rhs.day /\ x.secs < rhs.secs))
       THEN 1 ELSE 0)

\* The TimeDelta of days whole days, secs seconds and frac nanoseconds.
DurationOf(days, secs, frac) ==
    TimeDelta(days + ((secs + (frac \div NANOS_PER_SEC)) \div SECS_PER_DAY),
              (secs + (frac \div NANOS_PER_SEC)) % SECS_PER_DAY,
              frac % NANOS_PER_SEC)

\* TimeDelta::MIN <= td <= TimeDelta::MAX (i64::MAX milliseconds, which is
\* 106751991167 days and a part of a day), by thousands of days.
TdInRange(td) == td.d \div 1000 < 106751991 /\ td.d \div 1000 >= -106751991

\* expect(.., "always in range") of the sum of the two differences
InRangeOrPanic(td) == IF TdInRange(td) THEN Ok(td) ELSE Panic

\* NaiveDateTime::signed_duration_since: Ok(x - rhs), or the panic of its
\* expect.
naive_signed_duration_since(x, rhs) ==
    InRangeOrPanic(DurationOf(x.day - rhs.day, x.secs - rhs.secs + LeapAdjust(x, rhs),
                              x.frac - rhs.frac))

(***************************************************************************)
(* Time zones (crate::offset).  A time zone is [kind, secs]: Utc, a        *)
(* FixedOffset of secs seconds east, or Local, a zone with one             *)
(* daylight-saving period: LOCAL_STD east of UTC, LOCAL_DST between        *)
(* DST_START and DST_END (UTC).  An offset is its seconds east of UTC      *)
(* (Offset::fix().local_minus_utc()).                                      *)
(***************************************************************************)
Utc == [kind |-> "Utc", secs |-> 0]
FixedOffset(secs) == [kind |-> "Fixed", secs |-> secs]
Local == [kind |-> "Local", secs |-> 0]

LOCAL_STD == 3600
LOCAL_DST == 7200
DST_START == NaiveDT(DaysFromCivil(2024, 3, 31), 3600, 0)
DST_END == NaiveDT(DaysFromCivil(2024, 10, 27), 3600, 0)

\* TimeZone::from_offset: the time zone an offset of a DateTime<kind> came from.
from_offset(kind, off) ==
    IF kind = "Utc" THEN Utc
    ELSE IF kind = "Fixed" THEN FixedOffset(off)
    ELSE Local

\* TimeZone::offset_from_utc_datetime
offset_from_utc_datetime(tz, utc) ==
    IF tz.kind = "Utc" THEN 0
    ELSE IF tz.kind = "Fixed" THEN tz.secs
    ELSE IF NaiveLeq(DST_START, utc) /\ NaiveLess(utc, DST_END) THEN LOCAL_DST
    ELSE LOCAL_STD

\* LocalResult
LrNone == [lr |-> "None"]
LrSingle(v) == [lr |-> "Single", val |-> v]
LrAmbiguous(e, l) == [lr |-> "Ambiguous", earliest |-> e, latest |-> l]

\* LocalResult::single
single(r) == IF r.lr = "Single" THEN Some(r.val) ELSE None

\* Whether `local` is the local time, under offset off, of an instant at
\* which Local has that offset.
OffsetFits(local, off) ==
    offset_from_utc_datetime(Local, overflowing_add_offset(local, 0 - off)) = off

\* TimeZone::offset_from_local_datetime: the offsets under which the local
\* datetime is the local time of some instant: none in a gap, two in an
\* overlap (the earlier instant first).
LocalOffsets(dst, std) ==
    IF dst /\ std THEN LrAmbiguous(LOCAL_DST, LOCAL_STD)
    ELSE IF dst THEN LrSingle(LOCAL_DST)
    ELSE IF std THEN LrSingle(LOCAL_STD)
    ELSE LrNone

offset_from_local_datetime(tz, local) ==
    IF tz.kind = "Utc" THEN LrSingle(0)
    ELSE IF tz.kind = "Fixed" THEN LrSingle(tz.secs)
    ELSE LocalOffsets(OffsetFits(local, LOCAL_DST), OffsetFits(local, LOCAL_STD))

(***************************************************************************)
(* DateTime<Tz>: [datetime, offset, tz], the UTC NaiveDateTime, the offset *)
(* (seconds east) and the kind of Tz.                                      *)
(***************************************************************************)
from_naive_utc_and_offset(kind, datetime, off) ==
    [datetime |-> datetime, offset |-> off, tz |-> kind]

\* TimeZone::from_utc_datetime
from_utc_datetime(tz, utc) ==
    from_naive_utc_and_offset(tz.kind, utc, offset_from_utc_datetime(tz, utc))

\* The DateTime of kind `kind` with UTC datetime utc (if any) and offset off.
OfUtcOpt(kind, utc, off) ==
    IF IsSome(utc) THEN Some(from_naive_utc_and_offset(kind, utc.val, off)) ELSE None

\* The DateTime whose local time under offset off is `local`, if in range.
LocalWithOffset(tz, local, off) == OfUtcOpt(tz.kind, checked_sub_offset(local, off), off)

LrSingleOpt(r) == IF IsSome(r) THEN LrSingle(r.val) ELSE LrNone

LrAmbiguousOpt(e, l) ==
    IF IsSome(e) /\ IsSome(l) THEN LrAmbiguous(e.val, l.val) ELSE LrNone

\* LocalResult::and_then over the offsets found: an offset that pushes the
\* instant out of range gives LocalResult::None.
LocalResultOf(tz, local, o) ==
    IF o.lr = "None" THEN LrNone
    ELSE IF o.lr = "Single" THEN LrSingleOpt(LocalWithOffset(tz, local, o.val))
    ELSE LrAmbiguousOpt(LocalWithOffset(tz, local, o.earliest),
                        LocalWithOffset(tz, local, o.latest))

\* TimeZone::from_local_datetime
from_local_datetime(tz, local) ==
    LocalResultOf(tz, local, offset_from_local_datetime(tz, local))

naive_utc(d) == d.datetime
offset(d) == d.offset

timezone(d) == from_offset(d.tz, d.offset)

\* Faulty variant of with_timezone: takes the local datetime for the UTC one.
with_timezone_of_local(d, tz) ==
    from_utc_datetime(tz, overflowing_add_offset(d.datetime, d.offset))

with_timezone(d, tz) == from_utc_datetime(tz, d.datetime)

\* Faulty variant of fixed_offset: always the zero offset.
fixed_offset_zero(d) == with_timezone(d, FixedOffset(0))

fixed_offset(d) == with_timezone(d, FixedOffset(d.offset))

to_utc(d) == [datetime |-> d.datetime, offset |-> 0, tz |-> "Utc"]

\* impl From<DateTime<Utc>> for DateTime<FixedOffset>
from_utc_to_fixed(d) == with_timezone(d, FixedOffset(0))

\* Option::expect / unwrap: the value, or a panic.
Expect(o) == IF IsSome(o) THEN Ok(o.val) ELSE Panic

\* Faulty variant of naive_local: the projection that never panics.
naive_local_overflowing(d) == Ok(overflowing_add_offset(d.datetime, d.offset))

\* naive_local: Ok(local) or a panic.
naive_local(d) == Expect(checked_add_offset(d.datetime, d.offset))

overflowing_naive_local(d) == overflowing_add_offset(d.datetime, d.offset)

\* date_naive: Ok(day number) or a panic.
DateOfLocal(l) ==
    IF l.panic THEN Panic
    ELSE Expect(from_ymd_opt(DateYear(l.val.day), DateMonth(l.val.day), DateDay(l.val.day)))

date_naive(d) == DateOfLocal(naive_local(d))

\* Some(tz.from_utc_datetime(&datetime)) after the `?`.
FromUtcOpt(tz, r) == IF IsNone(r) THEN None ELSE Some(from_utc_datetime(tz, r.val))

\* Faulty variant of checked_add_signed: the offset of the receiver is kept.
KeepOffsetOpt(d, r) ==
    IF IsNone(r) THEN None ELSE Some(from_naive_utc_and_offset(d.tz, r.val, d.offset))

checked_add_signed_keep_offset(d, rhs) ==
    KeepOffsetOpt(d, naive_checked_add_signed(d.datetime, rhs))

checked_add_signed(d, rhs) ==
    FromUtcOpt(timezone(d), naive_checked_add_signed(d.datetime, rhs))

checked_sub_signed(d, rhs) ==
    FromUtcOpt(timezone(d), naive_checked_sub_signed(d.datetime, rhs))

\* .and_local_timezone(tz).single() after the `?`.
ResolveSingle(tz, shifted) ==
    IF IsNone(shifted) THEN None ELSE single(from_local_datetime(tz, shifted.val))

\* The checked calendar operations: Ok(Option<DateTime>), or a panic when
\* naive_local panics.
AddMonthsLocal(d, l, rhs) ==
    IF l.panic THEN Panic
    ELSE Ok(ResolveSingle(from_offset(d.tz, d.offset), naive_checked_add_months(l.val, rhs)))

SubMonthsLocal(d, l, rhs) ==
    IF l.panic THEN Panic
    ELSE Ok(ResolveSingle(from_offset(d.tz, d.offset), naive_checked_sub_months(l.val, rhs)))

AddDaysLocal(d, l, days) ==
    IF l.panic THEN Panic
    ELSE Ok(ResolveSingle(from_offset(d.tz, d.offset), naive_checked_add_days(l.val, days)))

SubDaysLocal(d, l, days) ==
    IF l.panic THEN Panic
    ELSE Ok(ResolveSingle(from_offset(d.tz, d.offset), naive_checked_sub_days(l.val, days)))

\* Faulty variant of checked_add_days: the days are added to the UTC datetime.
checked_add_days_utc(d, days) ==
    Ok(FromUtcOpt(timezone(d), naive_checked_add_days(d.datetime, days)))

\* Faulty variant of checked_add_months: a month is taken for 31 days.
checked_add_months_as_days(d, rhs) == AddDaysLocal(d, naive_local(d), 31 * rhs)

checked_add_months(d, rhs) == AddMonthsLocal(d, naive_local(d), rhs)
checked_sub_months(d, rhs) == SubMonthsLocal(d, naive_local(d), rhs)
checked_add_days(d, days) == AddDaysLocal(d, naive_local(d), days)
checked_sub_days(d, days) == SubDaysLocal(d, naive_local(d), days)

\* Faulty variant of signed_duration_since: the difference of the local
\* datetimes.
signed_duration_since_local(a, b) ==
    naive_signed_duration_since(overflowing_naive_local(a), overflowing_naive_local(b))

\* Faulty variant of signed_duration_since: the subsecond parts are dropped.
signed_duration_since_whole(a, b) ==
    naive_signed_duration_since(NaiveDT(a.datetime.day, a.datetime.secs, 0),
                                NaiveDT(b.datetime.day, b.datetime.secs, 0))

\* DateTime::signed_duration_since: Ok(TimeDelta), or a panic.
signed_duration_since(a, b) == naive_signed_duration_since(a.datetime, b.datetime)

\* impl Sub<DateTime<Tz>> / Sub<&DateTime<Tz>> for DateTime<Tz>: a - b
sub_datetime(a, b) == signed_duration_since(a, b)

\* .expect(..) of a checked calendar operation: a panic inside the
\* operation passes through.
ExpectOf(r) == IF r.panic THEN Panic ELSE Expect(r.val)

\* impl Add<TimeDelta>, Add<Months>, Add<Days> for DateTime<Tz>, by the type
\* of the right operand: Ok(sum) or a panic.
add(d, kind, x) ==
    CASE kind = "TimeDelta" -> Expect(checked_add_signed(d, x))
      [] kind = "Months" -> ExpectOf(checked_add_months(d, x))
      [] kind = "Days" -> ExpectOf(checked_add_days(d, x))

\* impl Sub<TimeDelta>, Sub<Months>, Sub<Days> for DateTime<Tz>
sub(d, kind, x) ==
    CASE kind = "TimeDelta" -> Expect(checked_sub_signed(d, x))
      [] kind = "Months" -> ExpectOf(checked_sub_months(d, x))
      [] kind = "Days" -> ExpectOf(checked_sub_days(d, x))

\* let tz = self.timezone(); *self = tz.from_utc_datetime(&datetime);
AssignFromUtc(tz, e) == IF e.panic THEN Panic ELSE Ok(from_utc_datetime(tz, e.val))

\* impl AddAssign<TimeDelta> / SubAssign<TimeDelta>: Ok(the new *self) or a
\* panic that leaves *self as it was.
add_assign(d, rhs) ==
    AssignFromUtc(timezone(d), Expect(naive_checked_add_signed(d.datetime, rhs)))

sub_assign(d, rhs) ==
    AssignFromUtc(timezone(d), Expect(naive_checked_sub_signed(d.datetime, rhs)))

\* DateTime::<Utc>::MIN_UTC / MAX_UTC
MIN_UTC == [datetime |-> NaiveMIN, offset |-> 0, tz |-> "Utc"]
MAX_UTC == [datetime |-> NaiveMAX, offset |-> 0, tz |-> "Utc"]

\* Faulty variant of eq: compares the local datetimes.
eq_local(a, b) == overflowing_naive_local(a) = overflowing_naive_local(b)

\* impl PartialEq<DateTime<Tz2>> for DateTime<Tz>
eq(a, b) == a.datetime = b.datetime

\* Faulty variant of partial_cmp: orders by the local datetimes.
partial_cmp_local(a, b) ==
    Some(NaiveCmp(overflowing_naive_local(a), overflowing_naive_local(b)))

\* impl PartialOrd<DateTime<Tz2>> for DateTime<Tz>
partial_cmp(a, b) == Some(NaiveCmp(a.datetime, b.datetime))

\* impl Ord for DateTime<Tz>
cmp(a, b) == NaiveCmp(a.datetime, b.datetime)

\* a >= b and a <= b, through partial_cmp
ge(a, b) == partial_cmp(a, b).val \in {"Greater", "Equal"}
le(a, b) == partial_cmp(a, b).val \in {"Less", "Equal"}

\* derive(Hash) for NaiveDateTime: what it writes to the hasher.
naive_hash(x, state) == state \o <<x.day, x.secs, x.frac>>

\* Faulty variant of hash: feeds the offset as well.
hash_with_offset(d, state) == naive_hash(d.datetime, state) \o <<d.offset>>

\* impl hash::Hash for DateTime<Tz>: the hasher's input after the call.
hash(d, state) == naive_hash(d.datetime, state)

\* ---- Unix timestamps ----

\* An i64 count of seconds since the epoch, kept as d whole days and s
\* seconds with 0 <= s < 86400 (the count is d * 86400 + s).
Secs(d, s) == [d |-> d, s |-> s]

\* An i64 count of milliseconds, as d whole days and 0 <= ms < 86400000.
Millis(d, ms) == [d |-> d, ms |-> ms]

MILLIS_PER_DAY == 86400000

\* An i64 count of nanoseconds, as d whole days, 0 <= s < 86400 seconds and
\* 0 <= n < 10^9 nanoseconds.
Nanos(d, s, n) == [d |-> d, s |-> s, n |-> n]

\* i64::MIN = -9223372036854775808 and i64::MAX = 9223372036854775807
\* nanoseconds (9223372036 s = 106751 days and 85636 s).
I64_MIN_NANOS == Nanos(-106752, 763, 145224192)
I64_MAX_NANOS == Nanos(106751, 85636, 854775807)

NanosLeq(a, b) ==
    \/ a.d < b.d
    \/ a.d = b.d /\ a.s < b.s
    \/ a.d = b.d /\ a.s = b.s /\ a.n <= b.n

\* NaiveDateTime::timestamp
naive_timestamp(x) == Secs(x.day, x.secs)

\* NaiveDateTime::timestamp_subsec_nanos
naive_timestamp_subsec_nanos(x) == x.frac

\* NaiveDateTime::timestamp_millis:
\* timestamp() * 1000 + timestamp_subsec_millis()
naive_timestamp_millis(x) ==
    Millis(x.day + ((x.secs * 1000 + (x.frac \div 1000000)) \div MILLIS_PER_DAY),
           (x.secs * 1000 + (x.frac \div 1000000)) % MILLIS_PER_DAY)

\* timestamp() * 10^9 + timestamp_subsec_nanos(), before the range check.
NanosOf(x) ==
    Nanos(x.day + ((x.secs + (x.frac \div NANOS_PER_SEC)) \div SECS_PER_DAY),
          (x.secs + (x.frac \div NANOS_PER_SEC)) % SECS_PER_DAY,
          x.frac % NANOS_PER_SEC)

\* checked_mul / checked_add on i64: None on overflow.
CheckedI64Nanos(v) ==
    IF NanosLeq(I64_MIN_NANOS, v) /\ NanosLeq(v, I64_MAX_NANOS) THEN Some(v) ELSE None

\* NaiveDateTime::timestamp_nanos
naive_timestamp_nanos(x) == CheckedI64Nanos(NanosOf(x))

\* NaiveDateTime::from_timestamp: the date from secs.div_euclid(86400), the
\* time from NaiveTime::from_num_seconds_from_midnight_opt, which takes a
\* nanosecond of 10^9 or more only in the last second of a minute.
naive_from_timestamp(secs, nsecs) ==
    IF \/ secs.d < MinDay
       \/ secs.d > MaxDay
       \/ nsecs >= 2 * NANOS_PER_SEC
       \/ (nsecs >= NANOS_PER_SEC /\ secs.s % 60 /= 59)
    THEN None
    ELSE Some(NaiveDT(secs.d, secs.s, nsecs))

\* NaiveDateTime::from_timestamp_millis:
\* from_timestamp(millis.div_euclid(1000), millis.rem_euclid(1000) * 1_000_000)
naive_from_timestamp_millis(millis) ==
    naive_from_timestamp(Secs(millis.d, millis.ms \div 1000), (millis.ms % 1000) * 1000000)

\* NaiveDateTime::and_utc / DateTime { datetime, offset: Utc }, under try_opt!
AndUtc(o) == IF IsSome(o) THEN Some(from_utc_datetime(Utc, o.val)) ELSE None

\* DateTime::timestamp
timestamp(d) == naive_timestamp(d.datetime)

\* DateTime::timestamp_subsec_nanos
timestamp_subsec_nanos(d) == naive_timestamp_subsec_nanos(d.datetime)

\* DateTime::timestamp_millis
timestamp_millis(d) == naive_timestamp_millis(d.datetime)

\* Faulty variant of timestamp_nanos: counts the local wall clock.
timestamp_nanos_local(d) == naive_timestamp_nanos(overflowing_naive_local(d))

\* DateTime::timestamp_nanos
timestamp_nanos(d) == naive_timestamp_nanos(d.datetime)

\* Faulty variant of from_timestamp: takes a leap nanosecond in any second.
from_timestamp_any_second(secs, nsecs) ==
    IF secs.d < MinDay \/ secs.d > MaxDay \/ nsecs >= 2 * NANOS_PER_SEC
    THEN None
    ELSE AndUtc(Some(NaiveDT(secs.d, secs.s, nsecs)))

\* DateTime::<Utc>::from_timestamp
from_timestamp(secs, nsecs) == AndUtc(naive_from_timestamp(secs, nsecs))

\* Faulty variant of from_timestamp_millis: takes the milliseconds as
\* microseconds of the second.
from_timestamp_millis_as_micros(millis) ==
    from_timestamp(Secs(millis.d, millis.ms \div 1000), (millis.ms % 1000) * 1000)

\* DateTime::<Utc>::from_timestamp_millis
from_timestamp_millis(millis) == AndUtc(naive_from_timestamp_millis(millis))

\* ---- std::time::SystemTime ----

\* A SystemTime, as t.duration_since(UNIX_EPOCH) reports it: before tells an
\* Err(e), whose e.duration() is how long before the epoch t is; fits tells
\* whether as_secs() is at most i64::MAX; secs and nanos are as_secs() and
\* subsec_nanos().
SystemTime(before, fits, secs, nanos) ==
    [before |-> before, fits |-> fits, secs |-> secs, nanos |-> nanos]

\* -sec of a second count
SecsNeg(t) == IF t.s = 0 THEN Secs(0 - t.d, 0) ELSE Secs(0 - t.d - 1, SECS_PER_DAY - t.s)

\* sec - 1 of a second count
SecsPred(t) == IF t.s = 0 THEN Secs(t.d - 1, SECS_PER_DAY - 1) ELSE Secs(t.d, t.s - 1)

\* Err(OutOfRange) and Ok(v) of Result<DateTime<Utc>, OutOfRange>
OutOfRange == [ok |-> FALSE]
OkOrOutOfRange(o) == IF IsSome(o) THEN [ok |-> TRUE, val |-> o.val] ELSE OutOfRange

\* Utc.timestamp(sec, nsec).single()
utc_timestamp_single(sec, nsec) == from_timestamp(sec, nsec)

\* The second count of try_from(t): (sec, _) of the match.
SystemTimeSec(t) ==
    IF ~t.before THEN t.secs
    ELSE IF t.nanos = 0 THEN SecsNeg(t.secs) ELSE SecsPred(SecsNeg(t.secs))

\* Faulty variant of SystemTimeNsec: keeps the nanoseconds of the distance.
SystemTimeNsecKept(t) == t.nanos

\* The nanosecond count of try_from(t): (_, nsec) of the match.
SystemTimeNsec(t) ==
    IF ~t.before \/ t.nanos = 0 THEN t.nanos ELSE NANOS_PER_SEC - t.nanos

\* impl TryFrom<SystemTime> for DateTime<Utc>
try_from_system_time(t) ==
    IF ~t.fits THEN OutOfRange
    ELSE OkOrOutOfRange(utc_timestamp_single(SystemTimeSec(t), SystemTimeNsec(t)))

\* A platform's SystemTime spans the days lo..hi around the epoch: one wider
\* than every DateTime (i64 seconds), one narrow (years 1601 to 30828).
Platforms ==
    { [lo |-> -2147483647, hi |-> 2147483647],
      [lo |-> DaysFromCivil(1601, 1, 1), hi |-> DaysFromCivil(30828, 9, 13)] }

\* Duration::new(secs, nanos): nanoseconds of a second or more carry over.
DurationNew(sec, nsec) ==
    Secs(sec.d + ((sec.s + (nsec \div NANOS_PER_SEC)) \div SECS_PER_DAY),
         (sec.s + (nsec \div NANOS_PER_SEC)) % SECS_PER_DAY)

\* The SystemTime sec seconds and nsec < 10^9 nanoseconds from UNIX_EPOCH.
SystemTimeAt(sec, nsec) ==
    IF sec.d >= 0 THEN SystemTime(FALSE, TRUE, sec, nsec)
    ELSE IF nsec = 0 THEN SystemTime(TRUE, TRUE, SecsNeg(sec), 0)
    ELSE SystemTime(TRUE, TRUE, SecsPred(SecsNeg(sec)), NANOS_PER_SEC - nsec)

\* Faulty variant of try_from_datetime: before the epoch it leaves the
\* nanoseconds out, and it never fails.
try_from_datetime_whole_secs(d, p) ==
    IF timestamp(d).d < 0
    THEN [ok |-> TRUE, val |-> SystemTimeAt(timestamp(d), 0)]
    ELSE [ok |-> TRUE, val |-> SystemTimeAt(DurationNew(timestamp(d), timestamp_subsec_nanos(d)),
                                            timestamp_subsec_nanos(d) % NANOS_PER_SEC)]

\* impl TryFrom<DateTime<Tz>> for SystemTime, on platform p: checked_sub of
\* Duration::new(sec_abs, 0) then += Duration::new(0, nsec) before the
\* epoch, checked_add of Duration::new(sec_abs, nsec) otherwise.
try_from_datetime(d, p) ==
    IF timestamp(d).d < 0
    THEN IF timestamp(d).d < p.lo THEN OutOfRange
         ELSE [ok |-> TRUE,
               val |-> SystemTimeAt(DurationNew(timestamp(d), timestamp_subsec_nanos(d)),
                                    timestamp_subsec_nanos(d) % NANOS_PER_SEC)]
    ELSE IF DurationNew(timestamp(d), timestamp_subsec_nanos(d)).d > p.hi THEN OutOfRange
         ELSE [ok |-> TRUE,
               val |-> SystemTimeAt(DurationNew(timestamp(d), timestamp_subsec_nanos(d)),
                                    timestamp_subsec_nanos(d) % NANOS_PER_SEC)]

\* ---- Text ----

\* A text is a sequence of characters; the names of days and months are kept
\* as one symbol each.
DIGITS == <<"0", "1", "2", "3", "4", "5", "6", "7", "8", "9">>
POW10 == <<1, 10, 100, 1000, 10000, 100000, 1000000, 10000000, 100000000, 1000000000>>
WEEKDAYS == <<"Mon", "Tue", "Wed", "Thu", "Fri", "Sat", "Sun">>
MONTHS == <<"Jan", "Feb", "Mar", "Apr", "May", "Jun", "Jul", "Aug", "Sep", "Oct", "Nov", "Dec">>

\* n written with exactly w decimal digits.
Padded(n, w) == [i \in 1..w |-> DIGITS[((n \div POW10[w - i + 1]) % 10) + 1]]

\* The number of decimal digits of n >= 0.
NumDigits(n) == CHOOSE k \in 1..10 : (k = 10 \/ n < POW10[k + 1]) /\ (k = 1 \/ n >= POW10[k])

\* write!(w, "{:+05}", year): a sign and at least four digits.
SignedYear(y) ==
    IF y < 0 THEN <<"-">> \o Padded(0 - y, IF NumDigits(0 - y) < 4 THEN 4 ELSE NumDigits(0 - y))
    ELSE <<"+">> \o Padded(y, IF NumDigits(y) < 4 THEN 4 ELSE NumDigits(y))

\* The year of write_rfc3339: four digits for 0..=9999, signed otherwise.
YearText(y) == IF y >= 0 /\ y <= 9999 THEN Padded(y, 4) ELSE SignedYear(y)

\* yyyy-mm-dd of a day number
DateText(day) ==
    YearText(DateYear(day)) \o <<"-">> \o Padded(DateMonth(day), 2)
        \o <<"-">> \o Padded(DateDay(day), 2)

\* hh:mm:ss, a leap second written as second + 1
TimeText(secs, frac) ==
    Padded(secs \div 3600, 2) \o <<":">> \o Padded((secs \div 60) % 60, 2)
        \o <<":">> \o Padded((secs % 60) + (frac \div NANOS_PER_SEC), 2)

\* The fraction of a second under a SecondsFormat.
FracText(nano, secform) ==
    CASE secform = "Secs" -> <<>>
      [] secform = "Millis" -> <<".">> \o Padded(nano \div 1000000, 3)
      [] secform = "Micros" -> <<".">> \o Padded(nano \div 1000, 6)
      [] secform = "Nanos" -> <<".">> \o Padded(nano, 9)
      [] secform = "AutoSi" ->
           IF nano = 0 THEN <<>>
           ELSE IF nano % 1000000 = 0 THEN <<".">> \o Padded(nano \div 1000000, 3)
           ELSE IF nano % 1000 = 0 THEN <<".">> \o Padded(nano \div 1000, 6)
           ELSE <<".">> \o Padded(nano, 9)

\* OffsetFormat with OffsetPrecision::Minutes: the seconds of the offset are
\* rounded to the nearest minute.
OffsetMinutes(off) == ((IF off < 0 THEN 0 - off ELSE off) + 30) \div 60

OffsetText(off, colon, use_z) ==
    IF use_z /\ off = 0 THEN <<"Z">>
    ELSE <<IF off < 0 THEN "-" ELSE "+">> \o Padded(OffsetMinutes(off) \div 60, 2)
            \o (IF colon THEN <<":">> ELSE <<>>) \o Padded(OffsetMinutes(off) % 60, 2)

\* format::write_rfc3339
write_rfc3339(naive, off, secform, use_z) ==
    DateText(naive.day) \o <<"T">> \o TimeText(naive.secs, naive.frac)
        \o FracText(naive.frac % NANOS_PER_SEC, secform) \o OffsetText(off, TRUE, use_z)

\* The day of the month of write_rfc2822: one digit below 10.
DayText(day) == Padded(day, IF day < 10 THEN 1 ELSE 2)

\* format::write_rfc2822: None (fmt::Error) for a year outside 0..=9999.
write_rfc2822(naive, off) ==
    IF DateYear(naive.day) < 0 \/ DateYear(naive.day) > 9999 THEN None
    ELSE Some(<<WEEKDAYS[((naive.day + 3) % 7) + 1], ",", " ">>
                \o DayText(DateDay(naive.day)) \o <<" ", MONTHS[DateMonth(naive.day)], " ">>
                \o Padded(DateYear(naive.day), 4) \o <<" ">>
                \o TimeText(naive.secs, naive.frac) \o <<" ">> \o OffsetText(off, FALSE, FALSE))

\* DateTime::to_rfc2822: the text, or the panic of expect.
to_rfc2822(d) == Expect(write_rfc2822(overflowing_naive_local(d), d.offset))

\* DateTime::to_rfc3339
to_rfc3339(d) == Ok(write_rfc3339(overflowing_naive_local(d), d.offset, "AutoSi", FALSE))

\* write_rfc3339 of a local datetime that naive_local() returned.
WriteLocal(r, off, secform, use_z) ==
    IF r.panic THEN Panic ELSE Ok(write_rfc3339(r.val, off, secform, use_z))

\* DateTime::to_rfc3339_opts
to_rfc3339_opts(d, secform, use_z) == WriteLocal(naive_local(d), d.offset, secform, use_z)

\* ---- Parsing ----

\* format::Parsed: the fields read so far.
ParsedNew ==
    [f \in {"year", "month", "day", "hour", "minute", "second", "nanosecond", "offset"} |-> None]

\* ParseResult: Ok(v) or Err(kind)
ParseOk(v) == [ok |-> TRUE, val |-> v]
ParseErr(kind) == [ok |-> FALSE, err |-> kind]

\* The state of a parse: the input left, the fields, the error met ("" for none).
Scan(s, parsed, err) == [s |-> s, parsed |-> parsed, err |-> err]

IsDigit(c) == \E i \in 1..10 : DIGITS[i] = c
DigitVal(c) == CHOOSE v \in 0..9 : DIGITS[v + 1] = c
Rest(s, n) == SubSeq(s, n + 1, Len(s))

\* The number of leading digits of s, at most max.
LeadingDigits(s, max) ==
    CHOOSE n \in 0..max :
        /\ n <= Len(s)
        /\ \A i \in 1..n : IsDigit(s[i])
        /\ n = max \/ n = Len(s) \/ ~IsDigit(s[n + 1])

\* The number of leading spaces of s.
LeadingSpaces(s) ==
    CHOOSE n \in 0..Len(s) : (\A i \in 1..n : s[i] = " ") /\ (n = Len(s) \/ s[n + 1] /= " ")

TrimStart(s) == Rest(s, LeadingSpaces(s))

RECURSIVE NumVal(_, _)
\* The value of the first n digits of s.
NumVal(s, n) == IF n = 0 THEN 0 ELSE NumVal(s, n - 1) * 10 + DigitVal(s[n])

\* The values Parsed::set_* takes for a field.
FieldRange(field) ==
    CASE field = "month" -> 1..12
      [] field = "day" -> 1..31
      [] field = "hour" -> 0..23
      [] field = "minute" -> 0..59
      [] field = "second" -> 0..60
      [] OTHER -> -999999999..999999999

\* Parsed::set_*(value) after a scan that took n characters of st.s.
SetField(st, field, v, n) ==
    IF v \notin FieldRange(field) THEN Scan(st.s, st.parsed, "OutOfRange")
    ELSE Scan(Rest(st.s, n), [st.parsed EXCEPT ![field] = Some(v)], "")

\* scan::number(s, min, max) into a field; n is the count of digits found.
ScanNumber(st, field, min, n) ==
    IF n < min THEN Scan(st.s, st.parsed, IF Len(st.s) = n THEN "TooShort" ELSE "Invalid")
    ELSE SetField(st, field, NumVal(st.s, n), n)

\* A number with a sign in front, as %Y takes it; n digits follow the sign.
ScanSigned(st, field, n) ==
    IF n = 0 THEN Scan(st.s, st.parsed, IF Len(st.s) = 1 THEN "TooShort" ELSE "Invalid")
    ELSE SetField(st, field,
                  IF st.s[1] = "-" THEN 0 - NumVal(Rest(st.s, 1), n) ELSE NumVal(Rest(st.s, 1), n),
                  n + 1)

\* Item::Numeric of a format string: leading white space is skipped, 1 to
\* max digits are taken, a year may carry a sign.
ScanNumeric(st, field, max) ==
    IF field = "year" /\ Len(st.s) > 0 /\ st.s[1] \in {"+", "-"}
    THEN ScanSigned(st, field, LeadingDigits(Rest(st.s, 1), 9))
    ELSE ScanNumber(st, field, 1, LeadingDigits(st.s, max))

\* One given character out of cs.
ScanChar(st, cs) ==
    IF Len(st.s) = 0 THEN Scan(st.s, st.parsed, "TooShort")
    ELSE IF st.s[1] \in cs THEN Scan(Rest(st.s, 1), st.parsed, "")
    ELSE Scan(st.s, st.parsed, "Invalid")

\* scan::nanosecond after a ".": the first nine digits count, n digits found.
ScanNanosecond(st, n) ==
    IF n = 0 THEN Scan(st.s, st.parsed, IF Len(st.s) = 1 THEN "TooShort" ELSE "Invalid")
    ELSE Scan(Rest(st.s, 1 + n + LeadingDigits(Rest(st.s, 1 + n), Len(st.s))),
              [st.parsed EXCEPT !["nanosecond"] =
                  Some(NumVal(Rest(st.s, 1), n) * POW10[10 - n])],
              "")

\* The optional fraction of RFC 3339.
ScanFraction(st) ==
    IF Len(st.s) > 0 /\ st.s[1] = "." THEN ScanNanosecond(st, LeadingDigits(Rest(st.s, 1), 9))
    ELSE st

\* The digits hh and mm of an offset, mm at position m of st.s.
ScanOffsetDigits(st, m, max) ==
    IF Len(st.s) < m + 1 THEN Scan(st.s, st.parsed, "TooShort")
    ELSE IF ~(IsDigit(st.s[2]) /\ IsDigit(st.s[3]) /\ IsDigit(st.s[m]) /\ IsDigit(st.s[m + 1]))
    THEN Scan(st.s, st.parsed, "Invalid")
    ELSE IF NumVal(SubSeq(st.s, m, m + 1), 2) > 59
            \/ NumVal(SubSeq(st.s, 2, 3), 2) * 3600 + NumVal(SubSeq(st.s, m, m + 1), 2) * 60 > max
    THEN Scan(st.s, st.parsed, "OutOfRange")
    ELSE Scan(Rest(st.s, m + 1),
              [st.parsed EXCEPT !["offset"] =
                  Some((IF st.s[1] = "-" THEN -1 ELSE 1)
                       * (NumVal(SubSeq(st.s, 2, 3), 2) * 3600
                          + NumVal(SubSeq(st.s, m, m + 1), 2) * 60))],
              "")

\* scan::timezone_offset: Z where allowed, else a sign, hh, a colon (needed
\* or optional) and mm; max is the largest offset taken.
ScanOffset(st, colon, zulu, max) ==
    IF Len(st.s) = 0 THEN Scan(st.s, st.parsed, "TooShort")
    ELSE IF zulu /\ st.s[1] \in {"Z", "z"}
    THEN Scan(Rest(st.s, 1), [st.parsed EXCEPT !["offset"] = Some(0)], "")
    ELSE IF st.s[1] \notin {"+", "-"} THEN Scan(st.s, st.parsed, "Invalid")
    ELSE IF Len(st.s) >= 4 /\ st.s[4] = ":" THEN ScanOffsetDigits(st, 5, max)
    ELSE IF colon /\ Len(st.s) >= 4 THEN Scan(st.s, st.parsed, "Invalid")
    ELSE ScanOffsetDigits(st, 4, max)

\* The largest offset RFC 3339 can name, 23:59, and FixedOffset can hold.
MAX_RFC3339_OFFSET == (23 * 60 + 59) * 60
MAX_OFFSET == 86399

\* One item of a format on the current input.
ScanItem(st, item) ==
    CASE item.k = "exact" -> ScanNumber(st, item.field, item.width, LeadingDigits(st.s, item.width))
      [] item.k = "numeric" -> ScanNumeric(Scan(TrimStart(st.s), st.parsed, ""), item.field, item.width)
      [] item.k = "literal" -> ScanChar(st, item.cs)
      [] item.k = "space" -> Scan(TrimStart(st.s), st.parsed, "")
      [] item.k = "fraction" -> ScanFraction(st)
      [] item.k = "offset" -> ScanOffset(Scan(TrimStart(st.s), st.parsed, ""), FALSE, FALSE, MAX_OFFSET)
      [] item.k = "rfc3339offset" -> ScanOffset(st, TRUE, TRUE, MAX_RFC3339_OFFSET)

RECURSIVE ScanItems(_, _)
\* The items in turn, up to the first error.
ScanItems(st, items) ==
    IF st.err /= "" \/ Len(items) = 0 THEN st
    ELSE ScanItems(ScanItem(st, Head(items)), Tail(items))

Exact(field, width) == [k |-> "exact", field |-> field, width |-> width]
Numeric(field, width) == [k |-> "numeric", field |-> field, width |-> width]
Literal(cs) == [k |-> "literal", cs |-> cs]

\* format::parse_rfc3339: the grammar of RFC 3339, the rest of the input
\* left in s.
parse_rfc3339(s) ==
    ScanItems(Scan(s, ParsedNew, ""),
              << Exact("year", 4), Literal({"-"}), Exact("month", 2), Literal({"-"}),
                 Exact("day", 2), Literal({"T", "t", " "}), Exact("hour", 2), Literal({":"}),
                 Exact("minute", 2), Literal({":"}), Exact("second", 2),
                 [k |-> "fraction"], [k |-> "rfc3339offset"] >>)

\* StrftimeItems::new(fmt): the item of one symbol of a format string.
StrftimeItem(sym) ==
    CASE sym = "%Y" -> Numeric("year", 4)
      [] sym = "%m" -> Numeric("month", 2)
      [] sym = "%d" -> Numeric("day", 2)
      [] sym = "%H" -> Numeric("hour", 2)
      [] sym = "%M" -> Numeric("minute", 2)
      [] sym = "%S" -> Numeric("second", 2)
      [] sym = "%z" -> [k |-> "offset"]
      [] sym = " " -> [k |-> "space"]
      [] OTHER -> Literal({sym})

StrftimeItems(fmt) == [i \in 1..Len(fmt) |-> StrftimeItem(fmt[i])]

\* format::parse_internal: input left after the last item is TOO_LONG.
TooLongIfLeft(st) ==
    IF st.err = "" /\ Len(st.s) > 0 THEN Scan(st.s, st.parsed, "TooLong") ELSE st

parse_internal(s, items) == TooLongIfLeft(ScanItems(Scan(s, ParsedNew, ""), items))

\* A field of Parsed, 0 when it was not read.
FieldOr0(parsed, field) == OrElse(parsed[field], 0)

\* Parsed::to_naive_time: second 60 is a leap second in second 59.
ParsedTime(parsed) ==
    [secs |-> FieldOr0(parsed, "hour") * 3600 + FieldOr0(parsed, "minute") * 60
                + (IF FieldOr0(parsed, "second") = 60 THEN 59 ELSE FieldOr0(parsed, "second")),
     frac |-> FieldOr0(parsed, "nanosecond")
                + (IF FieldOr0(parsed, "second") = 60 THEN NANOS_PER_SEC ELSE 0)]

\* The local datetime of a date and a time of day.
ParsedLocal(date, time) == NaiveDT(date, time.secs, time.frac)

\* offset.from_local_datetime(&datetime), as Parsed::to_datetime reads it.
ParsedResolve(r) ==
    IF r.lr = "Single" THEN ParseOk(r.val)
    ELSE IF r.lr = "None" THEN ParseErr("Impossible") ELSE ParseErr("NotEnough")

\* Parsed::to_datetime: the fields must give an offset, a date and a time.
to_datetime(parsed) ==
    IF \E f \in {"offset", "year", "month", "day", "hour", "minute"} : IsNone(parsed[f])
    THEN ParseErr("NotEnough")
    ELSE IF IsNone(from_ymd_opt(parsed["year"].val, parsed["month"].val, parsed["day"].val))
            \/ parsed["offset"].val > MAX_OFFSET \/ parsed["offset"].val < 0 - MAX_OFFSET
    THEN ParseErr("OutOfRange")
    ELSE ParsedResolve(from_local_datetime(
             FixedOffset(parsed["offset"].val),
             ParsedLocal(from_ymd_opt(parsed["year"].val, parsed["month"].val,
                                      parsed["day"].val).val,
                         ParsedTime(parsed))))

\* The datetime of a finished parse, or its error.
DateTimeOfScan(st) == IF st.err /= "" THEN ParseErr(st.err) ELSE to_datetime(st.parsed)

\* DateTime::parse_from_rfc3339
parse_from_rfc3339(s) == DateTimeOfScan(TooLongIfLeft(parse_rfc3339(s)))

\* Faulty variant of parse_from_str: input left after the value is let
\* through.
parse_from_str_lenient(s, fmt) ==
    IF parse_internal(s, StrftimeItems(fmt)).err \in {"", "TooLong"}
    THEN to_datetime(parse_internal(s, StrftimeItems(fmt)).parsed)
    ELSE ParseErr(parse_internal(s, StrftimeItems(fmt)).err)

\* DateTime::parse_from_str
parse_from_str(s, fmt) == DateTimeOfScan(parse_internal(s, StrftimeItems(fmt)))

\* parsed.to_datetime().map(|d| (d, remainder))
WithRemainder(r, remainder) ==
    IF r.ok THEN ParseOk([d |-> r.val, r |-> remainder]) ELSE r

\* format::parse_and_remainder: TOO_LONG is no error, the input left is
\* returned.
RemainderOfScan(st) ==
    IF st.err \in {"", "TooLong"} THEN WithRemainder(to_datetime(st.parsed), st.s)
    ELSE ParseErr(st.err)

\* DateTime::parse_and_remainder
parse_and_remainder(s, fmt) == RemainderOfScan(parse_internal(s, StrftimeItems(fmt)))

\* ---- Field getters ----

\* NaiveDate::ordinal, weekday (0 for Monday) and iso_week (the year and
\* week of the Thursday of the date's week).
Ordinal(day) == day - DaysFromCivil(DateYear(day), 1, 1) + 1
Weekday(day) == (day + 3) % 7
ThursdayOf(day) == day - Weekday(day) + 3
IsoWeek(day) ==
    [year |-> DateYear(ThursdayOf(day)), week |-> ((Ordinal(ThursdayOf(day)) - 1) \div 7) + 1]

\* Datelike and Timelike for NaiveDateTime, by field name.
naive_field(x, field) ==
    CASE field = "year" -> DateYear(x.day)
      [] field = "month" -> DateMonth(x.day)
      [] field = "month0" -> DateMonth(x.day) - 1
      [] field = "day" -> DateDay(x.day)
      [] field = "day0" -> DateDay(x.day) - 1
      [] field = "ordinal" -> Ordinal(x.day)
      [] field = "ordinal0" -> Ordinal(x.day) - 1
      [] field = "weekday" -> WEEKDAYS[Weekday(x.day) + 1]
      [] field = "iso_week" -> IsoWeek(x.day)
      [] field = "hour" -> x.secs \div 3600
      [] field = "minute" -> (x.secs \div 60) % 60
      [] field = "second" -> x.secs % 60
      [] field = "nanosecond" -> x.frac

\* Faulty variant of getter: reads naive_local(), which can panic.
getter_of_naive_local(d, field) ==
    IF naive_local(d).panic THEN Panic ELSE Ok(naive_field(naive_local(d).val, field))

\* impl Datelike / Timelike for DateTime<Tz>: the getters, by field name;
\* none has a failing path.
getter(d, field) == Ok(naive_field(overflowing_naive_local(d), field))

\* self.year(), self.month(), self.day() as years_since reads them.
YearOf(d) == naive_field(overflowing_naive_local(d), "year")
MonthOf(d) == naive_field(overflowing_naive_local(d), "month")
DayOf(d) == naive_field(overflowing_naive_local(d), "day")

\* DateTime::time: self.datetime.time() + self.offset.fix(), a time of day.
time(d) == [secs |-> TimeAddOffset(d.datetime.secs, d.offset).secs, frac |-> d.datetime.frac]

\* (month, day, time) of a is less than that of b, as tuples compare.
EarlierTime(a, b) ==
    \/ MonthOf(a) < MonthOf(b)
    \/ MonthOf(a) = MonthOf(b) /\ DayOf(a) < DayOf(b)
    \/ MonthOf(a) = MonthOf(b) /\ DayOf(a) = DayOf(b) /\ time(a).secs < time(b).secs
    \/ MonthOf(a) = MonthOf(b) /\ DayOf(a) = DayOf(b) /\ time(a).secs = time(b).secs
         /\ time(a).frac < time(b).frac

\* Some(years as u32) when years >= 0
NonNegative(years) == IF years >= 0 THEN Some(years) ELSE None

\* DateTime::years_since
years_since(self, base) ==
    NonNegative(YearOf(self) - YearOf(base) - (IF EarlierTime(self, base) THEN 1 ELSE 0))

\* impl fmt::Display for FixedOffset / Utc: +hh:mm, with :ss when the offset
\* has seconds; UTC for Utc.
OffsetDisplay(d) ==
    IF d.tz = "Utc" THEN <<"UTC">>
    ELSE <<IF d.offset < 0 THEN "-" ELSE "+">>
           \o Padded((IF d.offset < 0 THEN 0 - d.offset ELSE d.offset) \div 3600, 2) \o <<":">>
           \o Padded(((IF d.offset < 0 THEN 0 - d.offset ELSE d.offset) \div 60) % 60, 2)
           \o (IF d.offset % 60 = 0 THEN <<>>
               ELSE <<":">> \o Padded((IF d.offset < 0 THEN 0 - d.offset ELSE d.offset) % 60, 2))

\* impl fmt::Display for NaiveDateTime: the date, sep, the time.
NaiveText(x, sep) ==
    DateText(x.day) \o sep \o TimeText(x.secs, x.frac)
        \o FracText(x.frac % NANOS_PER_SEC, "AutoSi")

\* impl fmt::Display for DateTime<Tz>
fmt_display(d) == Ok(NaiveText(overflowing_naive_local(d), <<" ">>) \o <<" ">> \o OffsetDisplay(d))

\* impl fmt::Debug for DateTime<Tz>
fmt_debug(d) ==
    Ok(NaiveText(overflowing_naive_local(d), <<"T">>)
         \o (IF d.tz = "Utc" THEN <<"Z">> ELSE OffsetDisplay(d)))

\* The field setters of a NaiveDateTime, by field name.
naive_with(x, field, v) ==
    CASE field = "year" -> naive_with_year(x, v)
      [] field = "month" -> naive_with_month(x, v)
      [] field = "month0" -> naive_with_month0(x, v)
      [] field = "day" -> naive_with_day(x, v)
      [] field = "day0" -> naive_with_day0(x, v)
      [] field = "ordinal" -> naive_with_ordinal(x, v)
      [] field = "ordinal0" -> naive_with_ordinal0(x, v)
      [] field = "hour" -> naive_with_hour(x, v)
      [] field = "minute" -> naive_with_minute(x, v)
      [] field = "second" -> naive_with_second(x, v)
      [] field = "nanosecond" -> naive_with_nanosecond(x, v)

\* .and_then(|datetime| dt.timezone().from_local_datetime(&datetime).single())
AndThenSingle(tz, edited) ==
    IF IsNone(edited) THEN None ELSE single(from_local_datetime(tz, edited.val))

\* .filter(|dt| dt >= &MIN_UTC && dt <= &MAX_UTC)
FilterRange(r) ==
    IF IsSome(r) /\ ge(r.val, MIN_UTC) /\ le(r.val, MAX_UTC) THEN r ELSE None

\* Faulty variant of map_local: an ambiguous local time resolves to the
\* earlier instant.
EarliestOf(r) ==
    IF r.lr = "Single" THEN Some(r.val)
    ELSE IF r.lr = "Ambiguous" THEN Some(r.earliest)
    ELSE None

AndThenEarliest(tz, edited) ==
    IF IsNone(edited) THEN None ELSE EarliestOf(from_local_datetime(tz, edited.val))

map_local_earliest(d, field, v) ==
    FilterRange(AndThenEarliest(timezone(d), naive_with(overflowing_naive_local(d), field, v)))

\* Faulty variant of map_local: no range filter.
map_local_unfiltered(d, field, v) ==
    AndThenSingle(timezone(d), naive_with(overflowing_naive_local(d), field, v))

\* Faulty variant of map_local: the setter edits the UTC datetime.
map_local_of_utc(d, field, v) ==
    FilterRange(AndThenSingle(timezone(d), naive_with(d.datetime, field, v)))

\* map_local, with the conversion function f = the setter of `field` to v.
map_local(d, field, v) ==
    FilterRange(AndThenSingle(timezone(d), naive_with(overflowing_naive_local(d), field, v)))

\* The field setters with_year, with_month, with_month0, with_day, with_day0,
\* with_ordinal, with_ordinal0, with_hour, with_minute, with_second and
\* with_nanosecond, by field name: each is map_local with its own closure.
with_field(d, field, v) == map_local(d, field, v)

(***************************************************************************)
(* The inputs: instants around the ends of the range, the two transitions  *)
(* of Local, a leap second and a month end, each in every time zone.       *)
(***************************************************************************)
\* How many half-hour steps on either side of an anchor instant are taken.
Spread == 2

Anchors ==
    { NaiveMIN, NaiveMAX, DST_START, DST_END,
      NaiveDT(DaysFromCivil(2016, 12, 31), SECS_PER_DAY - 1, NANOS_PER_SEC + 500000000),
      NaiveDT(DaysFromCivil(2024, 1, 31), 5400, 0),
      NaiveDT(DaysFromCivil(2023, 1, 31), 5400, 0),
      NaiveDT(DaysFromCivil(2015, 5, 15), 7200, 0),
      \* what with_nanosecond(1_500_000_000) makes of the value above
      NaiveDT(DaysFromCivil(2015, 5, 15), 7200, NANOS_PER_SEC + 500000000),
      \* the first and last instants whose nanosecond count fits i64, and
      \* their neighbours one nanosecond outside
      NaiveDT(DaysFromCivil(1677, 9, 21), 12 * 60 + 43, 145224191),
      NaiveDT(DaysFromCivil(1677, 9, 21), 12 * 60 + 43, 145224192),
      NaiveDT(DaysFromCivil(2262, 4, 11), 23 * 3600 + 47 * 60 + 16, 854775807),
      NaiveDT(DaysFromCivil(2262, 4, 11), 23 * 3600 + 47 * 60 + 16, 854775808) }

\* x moved by k half hours, when that is in range.
Moved(x, k) ==
    naive_checked_add_signed(x, TimeDelta((k * 1800) \div SECS_PER_DAY, (k * 1800) % SECS_PER_DAY, 0))

Instants ==
    { Moved(x, k).val : <<x, k>> \in
        { p \in Anchors \X ((0 - Spread)..Spread) : IsSome(Moved(p[1], p[2])) } }

TimeZones == {Utc, Local} \cup { FixedOffset(o) : o \in {-86399, -18000, 0, 3600, 86399} }

Receivers == { from_utc_datetime(tz, x) : <<tz, x>> \in TimeZones \X Instants }

\* The values a receiver is compared with: the same instant and the
\* instants an hour away, in every time zone.
Others(d) ==
    { from_utc_datetime(tz, Moved(d.datetime, k).val) : <<tz, k>> \in
        { p \in TimeZones \X {-2, 0, 2} : IsSome(Moved(d.datetime, p[2])) } }

Deltas ==
    { TdZero, TimeDelta(0, 0, 1), TimeDelta(-1, SECS_PER_DAY - 1, NANOS_PER_SEC - 1),
      TimeDelta(0, 1, 0), TimeDelta(-1, SECS_PER_DAY - 1, 0),
      TimeDelta(0, 1800, 0), TimeDelta(-1, SECS_PER_DAY - 1800, 0),
      TimeDelta(1, 0, 0), TimeDelta(-1, 0, 0),
      TimeDelta(200000000, 0, 0), TimeDelta(-200000000, 0, 0) }

DayCounts == {0, 1, 60, 200000000}
MonthCounts == {0, 1, 2, 12, 7000000}

FieldValues ==
    [ year |-> {MIN_YEAR - 1, MIN_YEAR, 2023, 2024, MAX_YEAR, MAX_YEAR + 1},
      month |-> {0, 1, 2, 3, 10, 12, 13},
      month0 |-> {0, 2, 11, 12},
      day |-> {0, 1, 27, 29, 31, 32},
      day0 |-> {0, 30, 31},
      ordinal |-> {0, 1, 91, 366, 367},
      ordinal0 |-> {0, 90, 365, 366},
      hour |-> {0, 2, 3, 23, 24},
      minute |-> {0, 30, 59, 60},
      second |-> {0, 59, 60},
      nanosecond |-> {0, 999999999, 1500000000, 2000000000} ]

(***************************************************************************)
(* The state: a DateTime value dt, and in res the last operation applied   *)
(* to it, with its arguments and its result.                               *)
(***************************************************************************)
VARIABLES dt, res
vars == <<dt, res>>

\* The place of dt while no DateTime has been constructed.
NoDt == [datetime |-> NaiveDT(0, 0, 0), offset |-> 0, tz |-> "none"]

Init ==
    /\ dt \in Receivers \cup {NoDt}
    /\ res = [op |-> "none"]

\* No operation has been applied to dt yet.
Idle == res.op = "none" /\ dt.tz /= "none"

\* Nothing has been constructed yet: the associated functions can run.
Fresh == res.op = "none" /\ dt.tz = "none"

\* a == b
Eq ==
    /\ Idle
    /\ \E b \in Others(dt) : res' = [op |-> "eq", other |-> b, val |-> eq(dt, b)]
    /\ UNCHANGED dt

\* a.partial_cmp(&b), for b of any time zone type
PartialCmp ==
    /\ Idle
    /\ \E b \in Others(dt) :
         res' = [op |-> "partial_cmp", other |-> b, val |-> partial_cmp(dt, b)]
    /\ UNCHANGED dt

\* a.cmp(&b), for b of the same time zone type
Cmp ==
    /\ Idle
    /\ \E b \in Others(dt) :
         /\ b.tz = dt.tz
         /\ res' = [op |-> "cmp", other |-> b, val |-> cmp(dt, b)]
    /\ UNCHANGED dt

\* a and b hashed, each by a fresh hasher
Hash ==
    /\ Idle
    /\ \E b \in Others(dt) :
         res' = [op |-> "hash", other |-> b,
                 val |-> hash(dt, <<>>), otherval |-> hash(b, <<>>)]
    /\ UNCHANGED dt

WithTimezone ==
    /\ Idle
    /\ \E tz \in TimeZones :
         res' = [op |-> "with_timezone", tz |-> tz, val |-> with_timezone(dt, tz)]
    /\ UNCHANGED dt

FromUtcToFixed ==
    /\ Idle
    /\ dt.tz = "Utc"
    /\ res' = [op |-> "from_utc_to_fixed", val |-> from_utc_to_fixed(dt)]
    /\ UNCHANGED dt

FixedOffsetOf ==
    /\ Idle
    /\ res' = [op |-> "fixed_offset", val |-> fixed_offset(dt)]
    /\ UNCHANGED dt

ToUtc ==
    /\ Idle
    /\ res' = [op |-> "to_utc", val |-> to_utc(dt)]
    /\ UNCHANGED dt

NaiveLocal ==
    /\ Idle
    /\ res' = [op |-> "naive_local", val |-> naive_local(dt)]
    /\ UNCHANGED dt

DateNaive ==
    /\ Idle
    /\ res' = [op |-> "date_naive", val |-> date_naive(dt)]
    /\ UNCHANGED dt

\* One of the field setters with_year .. with_nanosecond
WithField ==
    /\ Idle
    /\ \E f \in DOMAIN FieldValues : \E v \in FieldValues[f] :
         res' = [op |-> "with", field |-> f, arg |-> v, val |-> with_field(dt, f, v)]
    /\ UNCHANGED dt

CheckedAddSigned ==
    /\ Idle
    /\ \E rhs \in Deltas :
         res' = [op |-> "checked_add_signed", rhs |-> rhs, val |-> checked_add_signed(dt, rhs)]
    /\ UNCHANGED dt

CheckedSubSigned ==
    /\ Idle
    /\ \E rhs \in Deltas :
         res' = [op |-> "checked_sub_signed", rhs |-> rhs, val |-> checked_sub_signed(dt, rhs)]
    /\ UNCHANGED dt

CheckedAddDays ==
    /\ Idle
    /\ \E n \in DayCounts :
         res' = [op |-> "checked_add_days", n |-> n, val |-> checked_add_days(dt, n)]
    /\ UNCHANGED dt

CheckedSubDays ==
    /\ Idle
    /\ \E n \in DayCounts :
         res' = [op |-> "checked_sub_days", n |-> n, val |-> checked_sub_days(dt, n)]
    /\ UNCHANGED dt

CheckedAddMonths ==
    /\ Idle
    /\ \E n \in MonthCounts :
         res' = [op |-> "checked_add_months", n |-> n, val |-> checked_add_months(dt, n)]
    /\ UNCHANGED dt

CheckedSubMonths ==
    /\ Idle
    /\ \E n \in MonthCounts :
         res' = [op |-> "checked_sub_months", n |-> n, val |-> checked_sub_months(dt, n)]
    /\ UNCHANGED dt

\* The right operands of + and -, by type.
Operands == [TimeDelta |-> Deltas, Months |-> MonthCounts, Days |-> DayCounts]

\* dt + x
Add ==
    /\ Idle
    /\ \E k \in DOMAIN Operands : \E x \in Operands[k] :
         res' = [op |-> "add", kind |-> k, x |-> x, val |-> add(dt, k, x)]
    /\ UNCHANGED dt

\* dt - x
Sub ==
    /\ Idle
    /\ \E k \in DOMAIN Operands : \E x \in Operands[k] :
         res' = [op |-> "sub", kind |-> k, x |-> x, val |-> sub(dt, k, x)]
    /\ UNCHANGED dt

\* An assignment in place: r is Ok(the new value) or a panic.
Assign(name, rhs, r) ==
    /\ res' = [op |-> name, rhs |-> rhs, self |-> dt, val |-> r]
    /\ dt' = IF r.panic THEN dt ELSE r.val

\* dt += rhs
AddAssign == Idle /\ \E rhs \in Deltas : Assign("add_assign", rhs, add_assign(dt, rhs))

\* dt -= rhs
SubAssign == Idle /\ \E rhs \in Deltas : Assign("sub_assign", rhs, sub_assign(dt, rhs))

\* The values a duration is taken to: those near dt, the two ends of the
\* range and a leap second, in every time zone.
Subtrahends(d) ==
    Others(d) \cup
    { from_utc_datetime(tz, x) : <<tz, x>> \in TimeZones \X
        { NaiveMIN, NaiveMAX,
          NaiveDT(DaysFromCivil(2016, 12, 31), SECS_PER_DAY - 1, NANOS_PER_SEC + 500000000) } }

\* dt.signed_duration_since(b), for b of any time zone type
SignedDurationSince ==
    /\ Idle
    /\ \E b \in Subtrahends(dt) :
         res' = [op |-> "signed_duration_since", other |-> b,
                 val |-> signed_duration_since(dt, b)]
    /\ UNCHANGED dt

\* dt - b, for b of dt's time zone type
SubDateTime ==
    /\ Idle
    /\ \E b \in Subtrahends(dt) :
         /\ b.tz = dt.tz
         /\ res' = [op |-> "sub_datetime", other |-> b, val |-> sub_datetime(dt, b)]
    /\ UNCHANGED dt

\* Second counts: around both ends of the range, the epoch, the leap second
\* of 2016-12-31, and counts far outside the range.
TimestampSecs ==
    { Secs(d, s) : <<d, s>> \in
        {MinDay - 1, MinDay, -1, 0, DaysFromCivil(2016, 12, 31), MaxDay, MaxDay + 1,
         -2000000000, 2000000000} \X {0, 59, 60, SECS_PER_DAY - 1} }

TimestampNsecs == {0, 999999999, 1000000000, 1999999999, 2000000000, 2147483647}

TimestampMillis ==
    { Millis(d, ms) : <<d, ms>> \in
        {MinDay - 1, MinDay, -1, 0, MaxDay, MaxDay + 1}
            \X {0, 1, 999, 59999, MILLIS_PER_DAY - 1} }

\* DateTime::<Utc>::from_timestamp(secs, nsecs)
FromTimestamp ==
    /\ Fresh
    /\ \E secs \in TimestampSecs, nsecs \in TimestampNsecs :
         /\ res' = [op |-> "from_timestamp", secs |-> secs, nsecs |-> nsecs,
                    val |-> from_timestamp(secs, nsecs)]
         /\ dt' = OrElse(from_timestamp(secs, nsecs), dt)

\* DateTime::<Utc>::from_timestamp_millis(millis)
FromTimestampMillis ==
    /\ Fresh
    /\ \E millis \in TimestampMillis :
         /\ res' = [op |-> "from_timestamp_millis", millis |-> millis,
                    val |-> from_timestamp_millis(millis)]
         /\ dt' = OrElse(from_timestamp_millis(millis), dt)

\* dt.timestamp() together with dt.timestamp_subsec_nanos()
Timestamp ==
    /\ Idle
    /\ res' = [op |-> "timestamp", secs |-> timestamp(dt),
               nsecs |-> timestamp_subsec_nanos(dt)]
    /\ UNCHANGED dt

\* dt.timestamp_millis()
TimestampMillisOf ==
    /\ Idle
    /\ res' = [op |-> "timestamp_millis", val |-> timestamp_millis(dt)]
    /\ UNCHANGED dt

\* dt.timestamp_nanos()
TimestampNanos ==
    /\ Idle
    /\ res' = [op |-> "timestamp_nanos", val |-> timestamp_nanos(dt)]
    /\ UNCHANGED dt

\* Platform times: around the epoch, at both ends of the range, far outside
\* it, and with more seconds than an i64 holds.
SystemTimes ==
    { SystemTime(q[1], TRUE, Secs(q[2], q[3]), q[4]) : q \in
        { r \in BOOLEAN \X {0, 1, 0 - MinDay, MaxDay, MaxDay + 1, 2000000000}
                        \X {0, 1, SECS_PER_DAY - 1} \X {0, 1, NANOS_PER_SEC - 1} :
            \* a time zero before the epoch is the epoch, which is not before
            ~(r[1] /\ r[2] = 0 /\ r[3] = 0 /\ r[4] = 0) } }
    \cup { SystemTime(b, FALSE, Secs(2000000000, 0), n) : <<b, n>> \in BOOLEAN \X {0, 1} }

\* DateTime::<Utc>::try_from(t) for a SystemTime t
TryFromSystemTime ==
    /\ Fresh
    /\ \E t \in SystemTimes :
         /\ res' = [op |-> "try_from", t |-> t, val |-> try_from_system_time(t)]
         /\ dt' = IF try_from_system_time(t).ok THEN try_from_system_time(t).val ELSE dt

\* SystemTime::try_from(dt), for a receiver and for the DateTime a
\* SystemTime was converted to.
TryIntoSystemTime ==
    /\ res.op \in {"none", "try_from"}
    /\ dt.tz /= "none"
    /\ \E p \in Platforms :
         res' = [op |-> "try_into", from |-> res, platform |-> p,
                 val |-> try_from_datetime(dt, p)]
    /\ UNCHANGED dt

SecondsFormats == {"Secs", "Millis", "Micros", "Nanos", "AutoSi"}

\* dt.to_rfc2822()
ToRfc2822 ==
    /\ Idle
    /\ res' = [op |-> "to_rfc2822", val |-> to_rfc2822(dt)]
    /\ UNCHANGED dt

\* dt.to_rfc3339()
ToRfc3339 ==
    /\ Idle
    /\ res' = [op |-> "to_rfc3339", val |-> to_rfc3339(dt)]
    /\ UNCHANGED dt

\* dt.to_rfc3339_opts(secform, use_z)
ToRfc3339Opts ==
    /\ Idle
    /\ \E secform \in SecondsFormats, use_z \in BOOLEAN :
         res' = [op |-> "to_rfc3339_opts", secform |-> secform, use_z |-> use_z,
                 val |-> to_rfc3339_opts(dt, secform, use_z)]
    /\ UNCHANGED dt

\* What is parsed after dt.to_rfc3339(): the text, the text with input after
\* it, or the text without its offset (the last six characters).
Rfc3339Input(text, variant) ==
    CASE variant = "whole" -> text
      [] variant = "trailing" -> text \o <<" ">>
      [] variant = "no offset" -> SubSeq(text, 1, Len(text) - 6)

\* DateTime::parse_from_rfc3339(s) for a text made from dt.to_rfc3339()
ParseFromRfc3339 ==
    /\ res.op = "to_rfc3339"
    /\ \E variant \in {"whole", "trailing", "no offset"} :
         res' = [op |-> "parse_from_rfc3339", variant |-> variant,
                 s |-> Rfc3339Input(res.val.val, variant),
                 val |-> parse_from_rfc3339(Rfc3339Input(res.val.val, variant))]
    /\ UNCHANGED dt

\* Format strings with and without a time zone, one symbol per specifier.
Formats ==
    { <<"%Y", "-", "%m", "-", "%d", " ", "%H", ":", "%M", ":", "%S", " ", "%z">>,
      <<"%Y", "-", "%m", "-", "%d", " ", "%H", ":", "%M", ":", "%S">>,
      <<"%d", "/", "%m", "/", "%Y", " ", "%H", ":", "%M", ":", "%S", "%z">> }

\* Inputs: a date (2015-02-30 is none), the time 23:16:09, an offset or
\* none, and more input after it or none.
ParseDates ==
    { DateText(DaysFromCivil(2015, 2, 18)),
      <<"2", "0", "1", "5", "-", "0", "2", "-", "3", "0">>,
      <<"1", "8", "/", "2", "/", "-", "4", "4">> }

ParseZones == { <<>>, <<" ", "+", "0", "2", "0", "0">>, <<"-", "0", "5", ":", "3", "0">> }

ParseTails == { <<>>, <<" ", "t", "e", "x", "t">>, <<" ">> }

ParseText(date, zone, more) == date \o <<" ">> \o TimeText(83769, 0) \o zone \o more

\* DateTime::parse_from_str(s, fmt)
ParseFromStr ==
    /\ Fresh
    /\ \E date \in ParseDates, zone \in ParseZones, more \in ParseTails, fmt \in Formats :
         /\ res' = [op |-> "parse_from_str", s |-> ParseText(date, zone, more), fmt |-> fmt,
                    zoned |-> zone /= <<>>,
                    val |-> parse_from_str(ParseText(date, zone, more), fmt)]
         /\ dt' = IF parse_from_str(ParseText(date, zone, more), fmt).ok
                  THEN parse_from_str(ParseText(date, zone, more), fmt).val ELSE dt

\* DateTime::parse_and_remainder(s, fmt)
ParseAndRemainder ==
    /\ Fresh
    /\ \E date \in ParseDates, zone \in ParseZones, more \in ParseTails, fmt \in Formats :
         /\ res' = [op |-> "parse_and_remainder", s |-> ParseText(date, zone, more),
                    fmt |-> fmt, zoned |-> zone /= <<>>,
                    val |-> parse_and_remainder(ParseText(date, zone, more), fmt)]
         /\ dt' = IF parse_and_remainder(ParseText(date, zone, more), fmt).ok
                  THEN parse_and_remainder(ParseText(date, zone, more), fmt).val.d ELSE dt

\* d moved by whole and half years, in d's time zone.
YearsAway(d) ==
    { from_utc_datetime(timezone(d), x.val) : x \in
        { y \in { naive_checked_add_months(d.datetime, 12), naive_checked_add_months(d.datetime, 18),
                  naive_checked_sub_months(d.datetime, 12), naive_checked_sub_months(d.datetime, 18) } :
            IsSome(y) } }

\* dt.years_since(base), base of dt's own time zone type
YearsSince ==
    /\ Idle
    /\ \E base \in Subtrahends(dt) \cup YearsAway(dt) :
         /\ base.tz = dt.tz
         /\ res' = [op |-> "years_since", base |-> base, val |-> years_since(dt, base)]
    /\ UNCHANGED dt

Fields ==
    {"year", "month", "month0", "day", "day0", "ordinal", "ordinal0", "weekday", "iso_week",
     "hour", "minute", "second", "nanosecond"}

\* dt.year(), dt.month(), ... dt.nanosecond()
Getter ==
    /\ Idle
    /\ \E field \in Fields : res' = [op |-> "getter", field |-> field, val |-> getter(dt, field)]
    /\ UNCHANGED dt

\* dt.time()
Time ==
    /\ Idle
    /\ res' = [op |-> "time", val |-> time(dt)]
    /\ UNCHANGED dt

\* format!("{}", dt) and format!("{:?}", dt)
Fmt ==
    /\ Idle
    /\ res' = [op |-> "fmt", display |-> fmt_display(dt), debug |-> fmt_debug(dt)]
    /\ UNCHANGED dt

Next ==
    \/ Eq
    \/ PartialCmp
    \/ Cmp
    \/ Hash
    \/ WithTimezone
    \/ FromUtcToFixed
    \/ FixedOffsetOf
    \/ ToUtc
    \/ NaiveLocal
    \/ DateNaive
    \/ WithField
    \/ CheckedAddSigned
    \/ CheckedSubSigned
    \/ CheckedAddDays
    \/ CheckedSubDays
    \/ CheckedAddMonths
    \/ CheckedSubMonths
    \/ Add
    \/ Sub
    \/ AddAssign
    \/ SubAssign
    \/ SignedDurationSince
    \/ SubDateTime
    \/ FromTimestamp
    \/ FromTimestampMillis
    \/ Timestamp
    \/ TimestampMillisOf
    \/ TimestampNanos
    \/ TryFromSystemTime
    \/ TryIntoSystemTime
    \/ ToRfc2822
    \/ ToRfc3339
    \/ ToRfc3339Opts
    \/ ParseFromRfc3339
    \/ ParseFromStr
    \/ ParseAndRemainder
    \/ YearsSince
    \/ Getter
    \/ Time
    \/ Fmt

Spec == Init /\ [][Next]_vars

(***************************************************************************)
(* Properties.                                                             *)
(***************************************************************************)
\* The local datetime of a value, as the plain sum of its UTC datetime and
\* its offset.
LocalDay(d) == d.datetime.day + ((d.datetime.secs + d.offset) \div SECS_PER_DAY)
LocalSecs(d) == (d.datetime.secs + d.offset) % SECS_PER_DAY
LocalReadsBefore(a, b) ==
    \/ LocalDay(a) < LocalDay(b)
    \/ LocalDay(a) = LocalDay(b) /\ LocalSecs(a) < LocalSecs(b)

\* C1: a == b holds if and only if a.naive_utc() == b.naive_utc(), for
\* values of the same or of different time zone types and any offsets.
C1_EqIffSameUtc ==
    res.op = "eq" => (res.val <=> (naive_utc(dt) = naive_utc(res.other)))

\* C1 witness: two equal values of different time zone types and offsets.
C1_Witness ==
    /\ res.op = "eq" /\ res.val
    /\ dt.tz /= res.other.tz /\ dt.offset /= res.other.offset

\* C2: partial_cmp and cmp are the comparison of the UTC datetimes: always
\* defined, Equal exactly for equal values, whatever the local fields read.
C2_OrderIsUtcOrder ==
    /\ res.op = "partial_cmp" =>
         /\ IsSome(res.val)
         /\ res.val.val = NaiveCmp(naive_utc(dt), naive_utc(res.other))
         /\ (res.val.val = "Equal") <=> eq(dt, res.other)
    /\ res.op = "cmp" =>
         /\ res.val = NaiveCmp(naive_utc(dt), naive_utc(res.other))
         /\ (res.val = "Equal") <=> eq(dt, res.other)

\* C2 witness: dt's local fields read earlier, yet dt compares greater.
C2_Witness ==
    /\ res.op = "partial_cmp"
    /\ res.val = Some("Greater")
    /\ LocalReadsBefore(dt, res.other)

\* C3: hashing feeds only the UTC datetime to the hasher, so values that
\* compare equal hash alike.
C3_HashOfUtcOnly ==
    res.op = "hash" =>
        /\ res.val = <<naive_utc(dt).day, naive_utc(dt).secs, naive_utc(dt).frac>>
        /\ eq(dt, res.other) => res.val = res.otherval

\* C3 witness: equal values with different offsets, hashed.
C3_Witness ==
    /\ res.op = "hash" /\ eq(dt, res.other)
    /\ dt.offset /= res.other.offset
    /\ res.val = res.otherval

\* C4: with_timezone(tz) keeps naive_utc() (so the result equals dt) and
\* replaces only the offset, by the one tz gives for that UTC instant.
C4_WithTimezoneKeepsInstant ==
    /\ res.op = "with_timezone" =>
         /\ naive_utc(res.val) = naive_utc(dt)
         /\ eq(res.val, dt)
         /\ res.val.tz = res.tz.kind
         /\ offset(res.val) = offset_from_utc_datetime(res.tz, naive_utc(dt))
    /\ res.op = "from_utc_to_fixed" =>
         /\ naive_utc(res.val) = naive_utc(dt)
         /\ res.val.tz = "Fixed" /\ offset(res.val) = 0

\* C4 witness: a value moved to a time zone that gives another offset.
C4_Witness ==
    /\ res.op = "with_timezone"
    /\ offset(res.val) /= offset(dt)
    /\ dt.offset /= 0

\* C5: to_utc() and fixed_offset() keep naive_utc(); to_utc() carries the
\* zero offset and fixed_offset() the offset dt.offset().fix().
C5_ToUtcFixedOffset ==
    /\ res.op = "to_utc" =>
         /\ naive_utc(res.val) = naive_utc(dt)
         /\ res.val.tz = "Utc" /\ offset(res.val) = 0
    /\ res.op = "fixed_offset" =>
         /\ naive_utc(res.val) = naive_utc(dt)
         /\ res.val.tz = "Fixed" /\ offset(res.val) = offset(dt)

\* C5 witness: fixed_offset() of a Local value with a non-zero offset.
C5_Witness ==
    /\ res.op = "fixed_offset"
    /\ dt.tz = "Local" /\ offset(res.val) = LOCAL_DST

\* C6: naive_local() is the UTC datetime plus the offset whenever that sum
\* is a representable NaiveDateTime, and panics exactly when it is not;
\* date_naive() panics in the same cases and otherwise is the local date.
LocalRepresentable(d) == MinDay <= LocalDay(d) /\ LocalDay(d) <= MaxDay

C6_NaiveLocalPanicsOutOfRange ==
    /\ res.op = "naive_local" =>
         IF LocalRepresentable(dt)
         THEN res.val = Ok(NaiveDT(LocalDay(dt), LocalSecs(dt), dt.datetime.frac))
         ELSE res.val = Panic
    /\ res.op = "date_naive" =>
         IF LocalRepresentable(dt)
         THEN res.val = Ok(LocalDay(dt))
         ELSE res.val = Panic

\* C6 witness: a valid value near MAX_UTC with a positive offset, whose
\* naive_local() panics.
C6_Witness ==
    /\ res.op = "naive_local" /\ res.val.panic
    /\ NaiveInRange(dt.datetime) /\ dt.offset > 0

\* The local times that Local skips (the gap at the start of summer time)
\* and repeats (the overlap at its end), by the wall clock.
GapDay == DaysFromCivil(2024, 3, 31)
OverlapDay == DaysFromCivil(2024, 10, 27)
InSecondHour(local, day) == local.day = day /\ local.secs >= 7200 /\ local.secs < 10800
InGap(kind, local) == kind = "Local" /\ InSecondHour(local, GapDay)
InOverlap(kind, local) == kind = "Local" /\ InSecondHour(local, OverlapDay)

\* The local datetime a setter hands to its time zone.
Edited == naive_with(overflowing_naive_local(dt), res.field, res.arg)

\* C7: a field setter returns Some only when the edited local datetime
\* resolves in dt's own time zone to exactly one instant, and the result then
\* reads the edited local datetime; an edited local time that does not exist
\* or is ambiguous gives None.
SetterResolvesOnce(e, val) ==
    /\ IsSome(val) =>
         /\ IsSome(e)
         /\ ~InGap(dt.tz, e.val) /\ ~InOverlap(dt.tz, e.val)
         /\ overflowing_naive_local(val.val) = e.val
         /\ val.val.tz = dt.tz
         /\ offset(val.val) = offset_from_utc_datetime(timezone(dt), naive_utc(val.val))
    /\ (IsSome(e) /\ (InGap(dt.tz, e.val) \/ InOverlap(dt.tz, e.val))) => val = None

C7_SetterSingleInstantOnly == res.op = "with" => SetterResolvesOnce(Edited, res.val)

\* C7 witness: with_hour(2) on the day summer time starts gives None.
C7_Witness ==
    /\ res.op = "with" /\ res.field = "hour"
    /\ IsSome(Edited) /\ InGap(dt.tz, Edited.val)
    /\ res.val = None

\* The instant whose local time under offset off is `local` lies outside
\* the representable dates.
InstantDay(local, off) == local.day + ((local.secs - off) \div SECS_PER_DAY)
InstantOutOfRange(local, off) ==
    InstantDay(local, off) < MinDay \/ InstantDay(local, off) > MaxDay

\* Far from its transitions Local has its standard offset.
OffsetFarOff(d) == IF d.tz = "Local" THEN LOCAL_STD ELSE d.offset

\* C8: every Some of a field setter lies within [MIN_UTC, MAX_UTC], and an
\* edited local datetime whose instant falls outside gives None.
SetterInRange(e, val) ==
    /\ IsSome(val) =>
         /\ NaiveLeq(naive_utc(MIN_UTC), naive_utc(val.val))
         /\ NaiveLeq(naive_utc(val.val), naive_utc(MAX_UTC))
    /\ (IsSome(e) /\ InstantOutOfRange(e.val, OffsetFarOff(dt))) => val = None

C8_SetterWithinRange == res.op = "with" => SetterInRange(Edited, res.val)

\* C8 witness: a value whose local time is past NaiveDateTime::MAX, edited
\* to a local time whose instant is past MAX_UTC: None.
C8_Witness ==
    /\ res.op = "with" /\ naive_local(dt).panic
    /\ IsSome(Edited) /\ InstantOutOfRange(Edited.val, OffsetFarOff(dt))
    /\ Edited.val.day = AFTER_MAX
    /\ res.val = None

\* The sum x + sign * rhs of a NaiveDateTime outside a leap second and a
\* TimeDelta, by plain arithmetic with carries.
SumFrac(x, rhs, sign) == x.frac + sign * rhs.n
SumSecs(x, rhs, sign) == x.secs + sign * rhs.s + (SumFrac(x, rhs, sign) \div NANOS_PER_SEC)
SumDay(x, rhs, sign) == x.day + sign * rhs.d + (SumSecs(x, rhs, sign) \div SECS_PER_DAY)
PlainSum(x, rhs, sign) ==
    NaiveDT(SumDay(x, rhs, sign), SumSecs(x, rhs, sign) % SECS_PER_DAY,
            SumFrac(x, rhs, sign) % NANOS_PER_SEC)
SumRepresentable(x, rhs, sign) ==
    MinDay <= SumDay(x, rhs, sign) /\ SumDay(x, rhs, sign) <= MaxDay
IsLeapSecond(x) == x.frac >= NANOS_PER_SEC

\* The result val of adding sign * rhs is the sum of the UTC datetime and
\* rhs, None exactly when that sum is not representable.
ActsOnUtc(sum, rhs, sign, val) ==
    /\ IsNone(val) <=> IsNone(sum)
    /\ IsSome(val) => naive_utc(val.val) = sum.val /\ val.val.tz = dt.tz
    /\ ~IsLeapSecond(naive_utc(dt)) =>
         /\ IsNone(val) <=> ~SumRepresentable(naive_utc(dt), rhs, sign)
         /\ IsSome(val) => naive_utc(val.val) = PlainSum(naive_utc(dt), rhs, sign)

\* The offset of the result is the one dt's time zone has at the result's
\* instant: dt's own offset for Utc and FixedOffset.
OffsetOfZoneAtResult(val) ==
    IsSome(val) =>
        /\ offset(val.val) = offset_from_utc_datetime(timezone(dt), naive_utc(val.val))
        /\ dt.tz /= "Local" => offset(val.val) = offset(dt)

\* C9 (amended): checked_add_signed(rhs) and checked_sub_signed(rhs) act on
\* the UTC instant only: Some(r) has r.naive_utc() = dt.naive_utc() plus
\* (minus) rhs, None exactly when that sum is out of range; r's offset is
\* the offset dt's time zone has at r's instant, which is dt's offset for
\* Utc and FixedOffset.
C9_AddSignedOnUtcZoneOffset ==
    /\ res.op = "checked_add_signed" =>
         /\ ActsOnUtc(naive_checked_add_signed(naive_utc(dt), res.rhs), res.rhs, 1, res.val)
         /\ OffsetOfZoneAtResult(res.val)
    /\ res.op = "checked_sub_signed" =>
         /\ ActsOnUtc(naive_checked_sub_signed(naive_utc(dt), res.rhs), res.rhs, -1, res.val)
         /\ OffsetOfZoneAtResult(res.val)

\* C9 witness: half an hour added to a Local value across the start of
\* summer time: the instant is the sum and the offset is the new one.
C9_Witness ==
    /\ res.op = "checked_add_signed" /\ dt.tz = "Local"
    /\ res.rhs = TimeDelta(0, 1800, 0)
    /\ IsSome(res.val)
    /\ naive_utc(res.val.val) = DST_START
    /\ offset(dt) = LOCAL_STD /\ offset(res.val.val) = LOCAL_DST

\* C9 as stated: the same, with r's offset equal to dt's offset.
C9_AddSignedKeepsOffset ==
    /\ res.op = "checked_add_signed" =>
         /\ ActsOnUtc(naive_checked_add_signed(naive_utc(dt), res.rhs), res.rhs, 1, res.val)
         /\ IsSome(res.val) => offset(res.val.val) = offset(dt)
    /\ res.op = "checked_sub_signed" =>
         /\ ActsOnUtc(naive_checked_sub_signed(naive_utc(dt), res.rhs), res.rhs, -1, res.val)
         /\ IsSome(res.val) => offset(res.val.val) = offset(dt)

\* The civil date b is the civil date a shifted by n months, the day of the
\* month clamped to the length of b's month.
MinOf(a, b) == IF a < b THEN a ELSE b
MonthShifted(a, b, n) ==
    /\ MonthsOfCivil(b) = MonthsOfCivil(a) + n
    /\ b.day = MinOf(a.day, DaysInMonth(b.year, b.month))

\* Day number `day` is dt's local date shifted by n days (unit "days") or by
\* n months (unit "months").
DateShifted(unit, n, day) ==
    IF unit = "days" THEN day = LocalDay(dt) + n
    ELSE MonthShifted(CivilFromDays(LocalDay(dt)), CivilFromDays(day), n)

\* dt's local time of day on day number `day`.
LocalTimeOn(day) == NaiveDT(day, LocalSecs(dt), dt.datetime.frac)

\* The result val of a calendar operation that has not panicked: Some(r)
\* reads dt's local time of day on the shifted local date, in dt's time zone;
\* a shifted local datetime in the gap or in the overlap gives None.
ShiftsLocalDate(unit, n, val) ==
    /\ IsSome(val) =>
         /\ LocalSecs(val.val) = LocalSecs(dt)
         /\ val.val.datetime.frac = dt.datetime.frac
         /\ DateShifted(unit, n, LocalDay(val.val))
         /\ val.val.tz = dt.tz
         /\ offset(val.val) = offset_from_utc_datetime(timezone(dt), naive_utc(val.val))
    /\ \A day \in {GapDay, OverlapDay} :
         ( /\ DateShifted(unit, n, day)
           /\ InGap(dt.tz, LocalTimeOn(day)) \/ InOverlap(dt.tz, LocalTimeOn(day)) )
         => val = None

\* C10: checked_add_days, checked_sub_days, checked_add_months and
\* checked_sub_months work on the local civil time: Some(r) has dt's local
\* time of day and dt's local date shifted by the days or months, also
\* across a change of offset; a shifted local datetime that resolves to no
\* instant or to two gives None.
C10_CalendarOpsOnLocalTime ==
    /\ (res.op = "checked_add_days" /\ ~res.val.panic) =>
         ShiftsLocalDate("days", res.n, res.val.val)
    /\ (res.op = "checked_sub_days" /\ ~res.val.panic) =>
         ShiftsLocalDate("days", 0 - res.n, res.val.val)
    /\ (res.op = "checked_add_months" /\ ~res.val.panic) =>
         ShiftsLocalDate("months", res.n, res.val.val)
    /\ (res.op = "checked_sub_months" /\ ~res.val.panic) =>
         ShiftsLocalDate("months", 0 - res.n, res.val.val)

\* C10 witness: days added to a Local value in winter time give the same
\* wall-clock time in summer time, under the other offset.
C10_Witness ==
    /\ res.op = "checked_add_days" /\ dt.tz = "Local" /\ res.n > 0
    /\ ~res.val.panic /\ IsSome(res.val.val)
    /\ offset(dt) = LOCAL_STD /\ offset(res.val.val.val) = LOCAL_DST
    /\ LocalSecs(res.val.val.val) = LocalSecs(dt)

\* C11: checked_add_days, checked_sub_days, checked_add_months and
\* checked_sub_months never panic: they return, for every receiver and every
\* argument, also for a receiver whose local datetime is out of range.
C11_CalendarOpsNeverPanic ==
    res.op \in {"checked_add_days", "checked_sub_days",
                "checked_add_months", "checked_sub_months"}
        => ~res.val.panic

\* The civil date of dt's local date and of the local date of r.
LocalCivil(d) == CivilFromDays(LocalDay(d))

\* b's day of month is a's, or the last day of b's month when a's day does
\* not exist in it.
DayClamped(a, b) ==
    IF a.day <= DaysInMonth(b.year, b.month)
    THEN b.day = a.day
    ELSE b.day = DaysInMonth(b.year, b.month)

\* b lies n months after a, with the day of month clamped.
InMonthAfter(a, b, n) ==
    /\ b.year * 12 + b.month = a.year * 12 + a.month + n
    /\ DayClamped(a, b)

\* The two examples: 31 January plus one month, in a leap and a common year.
ClampExample(r) ==
    /\ LocalDay(dt) = DaysFromCivil(2024, 1, 31) => LocalDay(r) = DaysFromCivil(2024, 2, 29)
    /\ LocalDay(dt) = DaysFromCivil(2023, 1, 31) => LocalDay(r) = DaysFromCivil(2023, 2, 28)

\* C12: checked_add_months and checked_sub_months clamp the day of month:
\* the result is in the month n months later (earlier), on the receiver's
\* local day of month when the month has it, else on the month's last day;
\* 2024-01-31 + 1 month = 2024-02-29 and 2023-01-31 + 1 month = 2023-02-28.
C12_MonthClamp ==
    /\ (res.op = "checked_add_months" /\ ~res.val.panic /\ IsSome(res.val.val)) =>
         /\ InMonthAfter(LocalCivil(dt), LocalCivil(res.val.val.val), res.n)
         /\ res.n = 1 => ClampExample(res.val.val.val)
    /\ (res.op = "checked_sub_months" /\ ~res.val.panic /\ IsSome(res.val.val)) =>
         InMonthAfter(LocalCivil(dt), LocalCivil(res.val.val.val), 0 - res.n)
    /\ (res.op = "checked_add_months" /\ res.n = 1 /\ dt.tz = "Utc"
          /\ LocalDay(dt) \in {DaysFromCivil(2024, 1, 31), DaysFromCivil(2023, 1, 31)}) =>
         ~res.val.panic /\ IsSome(res.val.val)

\* C12 witness: one month added to 31 January 2023 gives 28 February 2023.
C12_Witness ==
    /\ res.op = "checked_add_months" /\ res.n = 1
    /\ ~res.val.panic /\ IsSome(res.val.val)
    /\ LocalDay(dt) = DaysFromCivil(2023, 1, 31)
    /\ LocalDay(res.val.val.val) = DaysFromCivil(2023, 2, 28)

\* The checked operation that matches dt + x (sign 1) or dt - x (sign -1):
\* Ok(its Option), or a panic.
MatchingChecked(d, kind, sign, x) ==
    CASE kind = "TimeDelta" ->
           Ok(IF sign = 1 THEN checked_add_signed(d, x) ELSE checked_sub_signed(d, x))
      [] kind = "Months" ->
           (IF sign = 1 THEN checked_add_months(d, x) ELSE checked_sub_months(d, x))
      [] kind = "Days" ->
           (IF sign = 1 THEN checked_add_days(d, x) ELSE checked_sub_days(d, x))

ReturnsSome(c) == ~c.panic /\ IsSome(c.val)
ReturnsNone(c) == ~c.panic /\ IsNone(c.val)

\* val is the value inside the Some that the checked call c returns, and a
\* panic exactly when c returns None.
PanickingVersionOf(c, val) ==
    /\ ReturnsSome(c) => val = Ok(c.val.val)
    /\ val.panic <=> ReturnsNone(c)

\* The value of dt after the assignment is that of the operator on the old
\* value, p.
SameAsOperator(p, val) ==
    /\ val.panic <=> p.panic
    /\ ~p.panic => dt = p.val

\* C13: dt + x and dt - x, for TimeDelta, Months and Days, return the value
\* inside Some when the matching checked_* call returns Some and panic
\* exactly when it returns None; dt += x and dt -= x leave dt equal to
\* dt + x and dt - x.
C13_OperatorsArePanickingChecked ==
    /\ res.op = "add" =>
         PanickingVersionOf(MatchingChecked(dt, res.kind, 1, res.x), res.val)
    /\ res.op = "sub" =>
         PanickingVersionOf(MatchingChecked(dt, res.kind, -1, res.x), res.val)
    /\ res.op = "add_assign" =>
         SameAsOperator(add(res.self, "TimeDelta", res.rhs), res.val)
    /\ res.op = "sub_assign" =>
         SameAsOperator(sub(res.self, "TimeDelta", res.rhs), res.val)

\* The value is the same whatever offset either operand is tagged with.
SameForEveryOffset(b, val) ==
    \A tz \in TimeZones :
        /\ signed_duration_since(with_timezone(dt, tz), b) = val
        /\ signed_duration_since(dt, with_timezone(b, tz)) = val

\* val = a - b is a TimeDelta, and the negation of rev = b - a.
NegationOf(val, rev) ==
    /\ ~val.panic /\ ~rev.panic
    /\ val.val = TdNeg(rev.val)

\* C14: a.signed_duration_since(b) and a - b are computed from a.naive_utc()
\* and b.naive_utc() only: they never fail for any two representable
\* instants, do not change when an operand is re-tagged with another
\* offset, and a - b is the negation of b - a.
C14_DurationSinceOnUtc ==
    /\ res.op = "signed_duration_since" =>
         /\ ~res.val.panic
         /\ res.val = naive_signed_duration_since(naive_utc(dt), naive_utc(res.other))
         /\ SameForEveryOffset(res.other, res.val)
         /\ NegationOf(res.val, signed_duration_since(res.other, dt))
    /\ res.op = "sub_datetime" =>
         /\ res.val = signed_duration_since(dt, res.other)
         /\ NegationOf(res.val, sub_datetime(res.other, dt))

\* C14 witness: the whole range, MAX_UTC at one offset since MIN_UTC at
\* another, is a TimeDelta.
C14_Witness ==
    /\ res.op = "signed_duration_since"
    /\ naive_utc(dt) = NaiveMAX /\ naive_utc(res.other) = NaiveMIN
    /\ offset(dt) /= offset(res.other)
    /\ ~res.val.panic /\ res.val.val.d = MaxDay - MinDay

\* The difference a - b of two (timestamp, subsecond nanosecond) pairs, the
\* timestamps as day number and second of the day, plus extra seconds.
PairDifference(a, b, extra) ==
    [d |-> a.day - b.day
           + ((a.secs - b.secs + extra + ((a.frac - b.frac) \div NANOS_PER_SEC)) \div SECS_PER_DAY),
     s |-> (a.secs - b.secs + extra + ((a.frac - b.frac) \div NANOS_PER_SEC)) % SECS_PER_DAY,
     n |-> (a.frac - b.frac) % NANOS_PER_SEC]

\* x lies after the second that l is in.
AfterSecondOf(x, l) == x.day > l.day \/ (x.day = l.day /\ x.secs > l.secs)

\* The leap seconds counted in a - b: the one that b encodes when a lies
\* after it, the one that a encodes (negatively) when b lies after it.
LeapSecondsCounted(a, b) ==
    IF IsLeapSecond(b) /\ AfterSecondOf(a, b) THEN 1
    ELSE IF IsLeapSecond(a) /\ AfterSecondOf(b, a) THEN -1
    ELSE 0

\* C15: for two values neither of which encodes a leap second,
\* signed_duration_since is the plain difference of their (timestamp,
\* subsecond nanosecond) pairs, whatever dates lie between them; when an
\* endpoint encodes a leap second, that one leap second is counted.
C15_LeapSecondRule ==
    res.op = "signed_duration_since" =>
        /\ (~IsLeapSecond(naive_utc(dt)) /\ ~IsLeapSecond(naive_utc(res.other))) =>
             res.val = Ok(PairDifference(naive_utc(dt), naive_utc(res.other), 0))
        /\ (IsLeapSecond(naive_utc(dt)) \/ IsLeapSecond(naive_utc(res.other))) =>
             res.val = Ok(PairDifference(naive_utc(dt), naive_utc(res.other),
                                         LeapSecondsCounted(naive_utc(dt), naive_utc(res.other))))

\* C15 witness: an hour between two values on either side of the leap
\* second at the end of 2016, neither of them a leap second.
C15_Witness ==
    /\ res.op = "signed_duration_since"
    /\ ~IsLeapSecond(naive_utc(dt)) /\ ~IsLeapSecond(naive_utc(res.other))
    /\ naive_utc(dt).day = DaysFromCivil(2017, 1, 1)
    /\ naive_utc(res.other).day = DaysFromCivil(2016, 12, 31)
    /\ res.val = Ok(TimeDelta(0, 3600, 0))

\* The day of a second count lies outside NaiveDate::MIN..=NaiveDate::MAX.
SecsOutOfRange(secs) ==
    \/ secs.d < DaysFromCivil(MIN_YEAR, 1, 1)
    \/ secs.d > DaysFromCivil(MAX_YEAR, 12, 31)

\* secs % 60 of a second count (86400 is a multiple of 60).
SecondOfMinute(secs) == secs.s % 60

\* The cases in which from_timestamp is to return None.
TimestampRejected(secs, nsecs) ==
    \/ SecsOutOfRange(secs)
    \/ nsecs >= 2000000000
    \/ (nsecs >= 1000000000 /\ SecondOfMinute(secs) /= 59)

IsUtcValue(o) == IsSome(o) /\ o.val.tz = "Utc" /\ o.val.offset = 0

\* C16: from_timestamp(secs, nsecs) is None when secs is out of range, when
\* nsecs >= 2,000,000,000, and when nsecs >= 1,000,000,000 while
\* secs % 60 /= 59; in every other case it is Some of a UTC value.
C16_FromTimestampRejects ==
    res.op = "from_timestamp" =>
        IF TimestampRejected(res.secs, res.nsecs) THEN IsNone(res.val) ELSE IsUtcValue(res.val)

\* A leap-second nanosecond is accepted in the last second of a minute.
C16_Witness ==
    /\ res.op = "from_timestamp"
    /\ res.nsecs >= 1000000000
    /\ IsUtcValue(res.val)
    /\ dt = res.val.val

\* o is Some of a value equal to d.
SomeEqualTo(o, d) == IsSome(o) /\ eq(o.val, d)

\* C17: from_timestamp round-trips with timestamp() and
\* timestamp_subsec_nanos(): for every DateTime dt, leap-second values
\* included, from_timestamp(dt.timestamp(), dt.timestamp_subsec_nanos()) is
\* Some of a value equal to dt, and for every accepted (secs, nsecs) the
\* result's timestamp() is secs and its timestamp_subsec_nanos() is nsecs.
C17_TimestampRoundTrip ==
    /\ res.op = "timestamp" => SomeEqualTo(from_timestamp(res.secs, res.nsecs), dt)
    /\ (res.op = "from_timestamp" /\ IsSome(res.val)) =>
           /\ timestamp(res.val.val) = res.secs
           /\ timestamp_subsec_nanos(res.val.val) = res.nsecs

\* d cut down to whole milliseconds.
TruncatedToMillis(d) ==
    from_utc_datetime(Utc, NaiveDT(d.datetime.day, d.datetime.secs,
                                   d.datetime.frac - (d.datetime.frac % 1000000)))

\* C18 as stated: from_timestamp_millis(dt.timestamp_millis()) is Some of a
\* value equal to dt for every DateTime<Utc> dt, and for every accepted
\* millis the result's timestamp_millis() is millis.
C18_MillisExactInverse ==
    /\ (res.op = "timestamp_millis" /\ dt.tz = "Utc") =>
           SomeEqualTo(from_timestamp_millis(res.val), dt)
    /\ (res.op = "from_timestamp_millis" /\ IsSome(res.val)) =>
           timestamp_millis(res.val.val) = res.millis

\* C18: for every DateTime dt that encodes no leap second,
\* from_timestamp_millis(dt.timestamp_millis()) is Some of dt cut down to
\* whole milliseconds, hence equal to dt exactly when dt's nanosecond is a
\* whole number of milliseconds; and for every accepted millis the result's
\* timestamp_millis() is millis.
C18_MillisInverseUpToTruncation ==
    /\ (res.op = "timestamp_millis" /\ ~IsLeapSecond(dt.datetime)) =>
           /\ SomeEqualTo(from_timestamp_millis(res.val), TruncatedToMillis(dt))
           /\ eq(TruncatedToMillis(dt), dt) <=> dt.datetime.frac % 1000000 = 0
    /\ (res.op = "from_timestamp_millis" /\ IsSome(res.val)) =>
           timestamp_millis(res.val.val) = res.millis

\* A value with a fraction of a millisecond has been read in milliseconds.
C18_Witness ==
    /\ res.op = "timestamp_millis"
    /\ ~IsLeapSecond(dt.datetime)
    /\ dt.datetime.frac % 1000000 /= 0
    /\ dt.datetime.frac >= 1000000

\* The ends of the range of timestamp_nanos.
NanosFirst == NaiveDT(DaysFromCivil(1677, 9, 21), 12 * 60 + 43, 145224192)
NanosLast == NaiveDT(DaysFromCivil(2262, 4, 11), 23 * 3600 + 47 * 60 + 16, 854775807)

WithinNanosRange(x) == NaiveLeq(NanosFirst, x) /\ NaiveLeq(x, NanosLast)

\* C19: timestamp_nanos() is Some for every instant in
\* [1677-09-21T00:12:43.145224192Z, 2262-04-11T23:47:16.854775807Z], the two
\* ends giving i64::MIN and i64::MAX, and None for every instant outside.
C19_TimestampNanosRange ==
    res.op = "timestamp_nanos" =>
        /\ IsSome(res.val) <=> WithinNanosRange(dt.datetime)
        /\ dt.datetime = NanosFirst => res.val = Some(I64_MIN_NANOS)
        /\ dt.datetime = NanosLast => res.val = Some(I64_MAX_NANOS)

\* The first instant of the range, held in a zone away from UTC, gives
\* i64::MIN.
C19_Witness ==
    /\ res.op = "timestamp_nanos"
    /\ dt.datetime = NanosFirst
    /\ dt.offset /= 0
    /\ res.val = Some(I64_MIN_NANOS)

\* a + b of two second counts
SecsSum(a, b) == Secs(a.d + b.d + ((a.s + b.s) \div SECS_PER_DAY), (a.s + b.s) % SECS_PER_DAY)

\* sec * 10^9 + nsec is t's signed distance from the epoch, in nanoseconds:
\* the distance itself at or after the epoch, its negation before.
IsSignedDistance(sec, nsec, t) ==
    IF ~t.before THEN sec = t.secs /\ nsec = t.nanos
    ELSE \/ nsec = 0 /\ t.nanos = 0 /\ SecsSum(sec, t.secs) = Secs(0, 0)
         \/ nsec + t.nanos = 1000000000 /\ SecsSum(sec, t.secs) = Secs(-1, SECS_PER_DAY - 1)

\* The instant of t lies before NaiveDate::MIN or after NaiveDate::MAX.
SystemTimeOutOfRange(t) ==
    IF ~t.before THEN t.secs.d > DaysFromCivil(MAX_YEAR, 12, 31)
    ELSE \/ t.secs.d > 0 - DaysFromCivil(MIN_YEAR, 1, 1)
         \/ t.secs.d = 0 - DaysFromCivil(MIN_YEAR, 1, 1) /\ (t.secs.s > 0 \/ t.nanos > 0)

\* C20: DateTime::<Utc>::try_from(t) for a SystemTime t gives the pair
\* (sec, nsec) with 0 <= nsec < 1,000,000,000 and sec * 1,000,000,000 + nsec
\* the signed nanosecond distance of t from the epoch, also before the epoch;
\* it is Err(OutOfRange) exactly when the second count does not fit i64 or
\* the instant is outside the representable range.
C20_SystemTimeToUtc ==
    res.op = "try_from" =>
        /\ ~res.val.ok <=> (~res.t.fits \/ SystemTimeOutOfRange(res.t))
        /\ res.val.ok =>
               /\ timestamp_subsec_nanos(res.val.val) \in 0..999999999
               /\ IsSignedDistance(timestamp(res.val.val),
                                   timestamp_subsec_nanos(res.val.val), res.t)
               /\ res.val.val.tz = "Utc"

\* A time before the epoch with a fraction of a second has been converted.
C20_Witness ==
    /\ res.op = "try_from"
    /\ res.t.before
    /\ res.t.nanos = 1
    /\ res.val.ok
    /\ timestamp(dt) = Secs(-1, SECS_PER_DAY - 1)
    /\ timestamp_subsec_nanos(dt) = 999999999

\* Platform p has a SystemTime for t.
PlatformHolds(p, t) ==
    IF ~t.before THEN t.secs.d <= p.hi
    ELSE \/ t.secs.d < 0 - p.lo
         \/ t.secs.d = 0 - p.lo /\ t.secs.s = 0 /\ t.nanos = 0

\* The instant of x lies outside the days platform p spans.
OutsidePlatform(p, x) ==
    \/ x.day < p.lo
    \/ x.day > p.hi
    \/ x.day = p.hi /\ x.secs = SECS_PER_DAY - 1 /\ x.frac >= 1000000000

\* C21: for every SystemTime t that converts to a DateTime<Utc> dt,
\* SystemTime::try_from(dt) is Ok(t), before and after the epoch alike; the
\* conversion returns Err(OutOfRange), not a wrapped value, when the platform
\* has no SystemTime for the instant.
C21_SystemTimeRoundTrip ==
    res.op = "try_into" =>
        /\ (res.from.op = "try_from" /\ PlatformHolds(res.platform, res.from.t)) =>
               res.val = [ok |-> TRUE, val |-> res.from.t]
        /\ ~res.val.ok <=> OutsidePlatform(res.platform, dt.datetime)

\* A time before the epoch with a fraction of a second went there and back.
C21_Witness ==
    /\ res.op = "try_into"
    /\ res.from.op = "try_from"
    /\ res.from.t.before
    /\ res.from.t.nanos = 1
    /\ res.val.ok
    /\ res.val.val = res.from.t

\* C22: RFC 3339 text round-trips for every representable instant: for every
\* DateTime dt, parse_from_rfc3339(dt.to_rfc3339()) succeeds and returns a
\* value equal to dt.
C22_Rfc3339RoundTrip ==
    (res.op = "parse_from_rfc3339" /\ res.variant = "whole") =>
        res.val.ok /\ eq(res.val.val, dt)

\* The local year, as the text writers read it.
LocalYear(d) == DateYear(overflowing_naive_local(d).day)

\* The year of an RFC 2822 text: the four characters after the month name.
Rfc2822Year(text) ==
    SubSeq(text, IF text[5] = " " THEN 8 ELSE 9, IF text[5] = " " THEN 11 ELSE 12)

C24_TrailingInput ==
    /\ (res.op = "parse_and_remainder" /\ res.val.ok) =>
           parse_from_str(res.s, res.fmt) =
               IF res.val.val.r = <<>> THEN ParseOk(res.val.val.d) ELSE ParseErr("TooLong")
    /\ (res.op = "parse_from_rfc3339" /\ res.variant = "trailing"
          /\ parse_rfc3339(SubSeq(res.s, 1, Len(res.s) - 1)).err = ""
          /\ parse_rfc3339(SubSeq(res.s, 1, Len(res.s) - 1)).s = <<>>) =>
           res.val = ParseErr("TooLong")
    /\ (res.op = "parse_from_rfc3339" /\ res.variant = "no offset") => ~res.val.ok
    /\ (res.op \in {"parse_from_str", "parse_and_remainder"} /\ ~res.zoned) => ~res.val.ok

\* Input was left over after a value: the remainder entry point returned it.
C24_Witness ==
    /\ res.op = "parse_and_remainder"
    /\ res.val.ok
    /\ res.val.val.r = <<" ", "t", "e", "x", "t">>
    /\ dt = res.val.val.d
    /\ parse_from_str(res.s, res.fmt) = ParseErr("TooLong")

\* C25: self.years_since(base) returns None if base < self, and otherwise
\* Some of the whole years elapsed.
C25_YearsSinceNoneIfBaseEarlier ==
    res.op = "years_since" =>
        IF NaiveLess(res.base.datetime, dt.datetime) THEN IsNone(res.val) ELSE IsSome(res.val)

\* C28: years_since agrees with the order of the instants, whatever the
\* offsets of the two values: Some when base <= self, None when self < base.
C28_YearsSinceInstantOrder ==
    res.op = "years_since" =>
        /\ NaiveLeq(res.base.datetime, dt.datetime) => IsSome(res.val)
        /\ NaiveLess(dt.datetime, res.base.datetime) => IsNone(res.val)

\* The UTC datetime of d moved by d's offset, by plain arithmetic on days
\* and seconds.
UtcPlusOffset(d) == NaiveDT(LocalDay(d), LocalSecs(d), d.datetime.frac)

\* C30: the getters year, month, day, ordinal, weekday, iso_week, hour,
\* minute, second, nanosecond and time() return for every receiver the
\* fields of its UTC datetime plus its offset, which are the fields of
\* naive_local() whenever naive_local() succeeds; neither they nor Display
\* and Debug panic, also for receivers for which naive_local() panics.
C30_GettersTotal ==
    /\ res.op = "getter" =>
           /\ ~res.val.panic
           /\ res.val.val = naive_field(UtcPlusOffset(dt), res.field)
           /\ ~naive_local(dt).panic => res.val.val = naive_field(naive_local(dt).val, res.field)
    /\ res.op = "time" =>
           /\ res.val = [secs |-> LocalSecs(dt), frac |-> dt.datetime.frac]
           /\ ~naive_local(dt).panic =>
                  res.val = [secs |-> naive_local(dt).val.secs, frac |-> naive_local(dt).val.frac]
    /\ res.op = "fmt" => ~res.display.panic /\ ~res.debug.panic

\* A getter returned the local year of a receiver whose local datetime is
\* past the last NaiveDateTime.
C30_Witness ==
    /\ res.op = "getter"
    /\ res.field = "year"
    /\ naive_local(dt).panic
    /\ res.val = Ok(MAX_YEAR + 1)

\* The fields the setters with_year, with_month, with_day, with_hour,
\* with_minute, with_second and with_nanosecond name.
SetterFields == {"year", "month", "day", "hour", "minute", "second", "nanosecond"}

\* r reads v in the named field and what d reads in every other one.
OnlyFieldChanged(d, r, field, v) ==
    /\ getter(r, field) = Ok(v)
    /\ \A g \in SetterFields \ {field} : getter(r, g) = getter(d, g)

\* C26: when one of the setters with_year, with_month, with_day, with_hour,
\* with_minute, with_second, with_nanosecond returns Some(r), the named
\* local field of r has the requested value, every other local field of r
\* equals the receiver's, r is in the receiver's time zone, and the
\* receiver is unchanged.
C26_SetterFrame ==
    /\ [](\/ ~(res.op = "with" /\ res.field \in SetterFields /\ IsSome(res.val))
          \/ /\ OnlyFieldChanged(dt, res.val.val, res.field, res.arg)
             /\ timezone(res.val.val) = timezone(dt))
    /\ [][res'.op = "with" => dt' = dt]_vars

\* The hour of a Local value was set to 23 and the result lies on the other
\* side of a change of offset.
C26_Witness ==
    /\ res.op = "with"
    /\ res.field = "hour"
    /\ res.arg = 23
    /\ dt.tz = "Local"
    /\ IsSome(res.val)
    /\ getter(dt, "hour") /= Ok(23)
    /\ res.val.val.offset /= dt.offset

\* The four calendar operations.
CalendarOps == {"checked_add_days", "checked_sub_days", "checked_add_months", "checked_sub_months"}

\* C27: checked_add_days, checked_sub_days, checked_add_months and
\* checked_sub_months of zero days or months each return Some of a value
\* equal to dt and carrying dt's offset, for every dt in every time zone.
C27_AddNothingIsIdentity ==
    (res.op \in CalendarOps /\ res.n = 0) =>
        /\ ~res.val.panic
        /\ IsSome(res.val.val)
        /\ eq(res.val.val.val, dt)
        /\ res.val.val.val.offset = dt.offset

\* The text t with its numeric offset of six characters replaced by Z.
WithZ(t) == SubSeq(t, 1, Len(t) - 6) \o <<"Z">>

\* C29: to_rfc3339_opts returns without a panic for every receiver; with
\* SecondsFormat::AutoSi and use_z = false its text is that of to_rfc3339();
\* with use_z = true the text differs from that of use_z = false only in
\* that an offset of zero is written Z, and an offset other than zero is
\* written in digits.
C29_Rfc3339OptsTotal ==
    res.op = "to_rfc3339_opts" =>
        /\ ~res.val.panic
        /\ (res.secform = "AutoSi" /\ ~res.use_z) => res.val = to_rfc3339(dt)
        /\ (res.use_z /\ dt.offset = 0) =>
               res.val.val = WithZ(to_rfc3339_opts(dt, res.secform, FALSE).val)
        /\ (res.use_z /\ dt.offset /= 0) => res.val = to_rfc3339_opts(dt, res.secform, FALSE)

====
